---- MODULE Spec2Model ----
(***************************************************************************)
(* Model of the MCP server core of hackemy/mcp_server: the JSON-RPC        *)
(* dispatcher and the server builder (src/src/server.rs), the response     *)
(* carrier (src/src/types.rs), the loader (src/src/loader.rs) and the      *)
(* argument validator (src/crates/mcpserver/src/validate.rs).              *)
(*                                                                         *)
(* Spec is a built server with registrations and dispatches; SpecBuild is  *)
(* the construction of a server; SpecValidate is the validator called on   *)
(* its own; SpecWire is the server called with every id a caller may       *)
(* construct; SpecSession is a server that registers, then serves.         *)
(*                                                                         *)
(* JSON values are tagged records, Option<T> is a record with a some     *)
(* flag, and a formatted message is the sequence of its pieces.            *)
(***************************************************************************)
EXTENDS Integers, Sequences, FiniteSets, TLC

\* ------------------------------------------------------------------------
\* Bounds of the model
\* ------------------------------------------------------------------------

\* Number of handle_tool / handle_resource calls explored on one server.
MaxRegs == 2

\* Number of tool definitions and of resource definitions a builder collects.
MaxTools == 3
MaxResources == 2

\* Length of the required list and of a dependency list of a schema, and
\* number of validate_arguments calls made on one pair of schema and arguments.
MaxRequired == 2
MaxDeps == 2
MaxValidations == 2

\* ------------------------------------------------------------------------
\* Option<T> and serde_json::Value
\* ------------------------------------------------------------------------

None == [some |-> FALSE]
Some(x) == [some |-> TRUE, v |-> x]

JNull == [kind |-> "null"]
JNumber(n) == [kind |-> "number", n |-> n]
JString(s) == [kind |-> "string", s |-> s]
\* A JSON object used as tool arguments: its key set, and the keys whose
\* value is JSON null (the other keys hold a non-null scalar).
JObject(keys, nulls) == [kind |-> "object", keys |-> keys, nulls |-> nulls]
JEmptyObject == JObject({}, {})

\* Value::is_null
is_null(v) == v.kind = "null"

\* Value::as_object(): Some(map) for an object, None otherwise; the map is
\* represented by its key set, which is all the validator reads.
as_object(v) == IF v.kind = "object" THEN Some(v.keys) ELSE None

\* Option::unwrap_or
unwrap_or(o, d) == IF o.some THEN o.v ELSE d

\* ------------------------------------------------------------------------
\* JSON-RPC error codes (types.rs)
\* ------------------------------------------------------------------------

ERR_CODE_PARSE == -32700
ERR_CODE_INVALID_REQ == -32600
ERR_CODE_NO_METHOD == -32601
ERR_CODE_BAD_PARAMS == -32602
ERR_CODE_INTERNAL == -32603

PROTOCOL_VERSION == "2025-03-26"

\* ------------------------------------------------------------------------
\* McpResponse and its constructors (types.rs)
\* ------------------------------------------------------------------------

\* RpcError built by McpResponse::error: data is always None.
RpcError(code, message) == [code |-> code, message |-> message, data |-> None]

\* McpResponse::cached
cached(id, raw) == [id |-> id, kind |-> [variant |-> "Cached", raw |-> raw]]

\* McpResponse::ok
ok(id, result) == [id |-> id, kind |-> [variant |-> "Result", value |-> result]]

\* A constructor that loses the id of the request.
error_drops_id(id, code, message) ==
    [id |-> None, kind |-> [variant |-> "Error", err |-> RpcError(code, message)]]

\* McpResponse::error
error(id, code, message) ==
    [id |-> id, kind |-> [variant |-> "Error", err |-> RpcError(code, message)]]

\* McpResponse::notification
notification == [id |-> None, kind |-> [variant |-> "Notification"]]

\* McpResponse::is_notification
is_notification(r) == r.kind.variant = "Notification"

\* serde_json::from_str on a pre-serialised payload: the payload of a cached
\* response is kept as the value it was serialised from, tagged as raw text.
to_raw(value) == [raw |-> value]
from_str(raw) == raw.raw

\* A conversion that reports an error with a null result beside it.
into_json_rpc_result_beside_error(r) ==
    CASE r.kind.variant = "Cached" ->
           [jsonrpc |-> "2.0", id |-> r.id,
            result |-> Some(from_str(r.kind.raw)), error |-> None]
      [] r.kind.variant = "Result" ->
           [jsonrpc |-> "2.0", id |-> r.id,
            result |-> Some(r.kind.value), error |-> None]
      [] r.kind.variant = "Error" ->
           [jsonrpc |-> "2.0", id |-> r.id,
            result |-> Some(JNull), error |-> Some(r.kind.err)]
      [] r.kind.variant = "Notification" ->
           [jsonrpc |-> "2.0", id |-> None, result |-> None, error |-> None]

\* McpResponse::into_json_rpc
into_json_rpc(r) ==
    CASE r.kind.variant = "Cached" ->
           [jsonrpc |-> "2.0", id |-> r.id,
            result |-> Some(from_str(r.kind.raw)), error |-> None]
      [] r.kind.variant = "Result" ->
           [jsonrpc |-> "2.0", id |-> r.id,
            result |-> Some(r.kind.value), error |-> None]
      [] r.kind.variant = "Error" ->
           [jsonrpc |-> "2.0", id |-> r.id,
            result |-> None, error |-> Some(r.kind.err)]
      [] r.kind.variant = "Notification" ->
           [jsonrpc |-> "2.0", id |-> None, result |-> None, error |-> None]

\* JsonRpcResponse::is_notification
JsonRpcResponse_is_notification(j) ==
    ~j.id.some /\ ~j.result.some /\ ~j.error.some

\* A serialiser that always emits an id member, null when there is no id.
Serialize_always_id(r) ==
    LET payload == CASE r.kind.variant = "Cached" -> {"result"}
                     [] r.kind.variant = "Result" -> {"result"}
                     [] r.kind.variant = "Error" -> {"error"}
                     [] r.kind.variant = "Notification" -> {}
    IN  [len |-> 2 + (IF is_notification(r) THEN 0 ELSE 1),
         members |-> {"jsonrpc", "id"} \cup payload,
         jsonrpc |-> "2.0",
         id |-> IF r.id.some THEN r.id ELSE Some(JNull),
         result |-> CASE r.kind.variant = "Cached" -> Some(r.kind.raw.raw)
                      [] r.kind.variant = "Result" -> Some(r.kind.value)
                      [] OTHER -> None,
         error |-> IF r.kind.variant = "Error" THEN Some(r.kind.err) ELSE None]

\* impl Serialize for McpResponse: the members of the emitted JSON map.
Serialize(r) ==
    LET has_id == r.id.some
        has_payload == ~is_notification(r)
        payload == CASE r.kind.variant = "Cached" -> {"result"}
                     [] r.kind.variant = "Result" -> {"result"}
                     [] r.kind.variant = "Error" -> {"error"}
                     [] r.kind.variant = "Notification" -> {}
        members == {"jsonrpc"} \cup (IF has_id THEN {"id"} ELSE {}) \cup payload
    IN  [len |-> 1 + (IF has_id THEN 1 ELSE 0) + (IF has_payload THEN 1 ELSE 0),
         members |-> members,
         jsonrpc |-> "2.0",
         id |-> r.id,
         result |-> CASE r.kind.variant = "Cached" -> Some(r.kind.raw.raw)
                      [] r.kind.variant = "Result" -> Some(r.kind.value)
                      [] OTHER -> None,
         error |-> IF r.kind.variant = "Error" THEN Some(r.kind.err) ELSE None]

\* serde_json::from_str::<JsonRpcResponse> on the serialised map. A member of
\* type Option<T> is None when the member is absent and also when it is JSON
\* null; data of the error is absent (it is skipped when None).
Deserialize(s) ==
    LET member(name, value) ==
            IF name \in s.members /\ value.some /\ value.v # JNull THEN value ELSE None
    IN  [jsonrpc |-> s.jsonrpc,
         id |-> member("id", s.id),
         result |-> member("result", s.result),
         error |-> IF "error" \in s.members
                   THEN Some([code |-> s.error.v.code, message |-> s.error.v.message,
                              data |-> None])
                   ELSE None]

\* text_result / error_result (types.rs): one text block and the error flag.
ContentBlock(text) == [block_type |-> "text", text |-> Some(text)]
text_result(text) == [content |-> <<ContentBlock(text)>>, is_error |-> FALSE]
error_result(text) == [content |-> <<ContentBlock(text)>>, is_error |-> TRUE]

\* serde_json::to_value(&ToolResult): isError is skipped when false.
ToolResultValue(r) ==
    [kind |-> "tool_result", content |-> r.content,
     isError |-> IF r.is_error THEN Some(TRUE) ELSE None]

\* McpError and its Display text (thiserror attributes).
McpError(variant, text) == [variant |-> variant, text |-> text]
to_string(e) ==
    CASE e.variant = "Validation" -> <<"validation error: ", e.text>>
      [] e.variant = "ToolError" -> <<"tool error: ", e.text>>
      [] e.variant = "Other" -> <<e.text>>

Ok(x) == [is_ok |-> TRUE, v |-> x]
Err(e) == [is_ok |-> FALSE, e |-> e]

\* ------------------------------------------------------------------------
\* Tool and resource definitions, schema metadata (types.rs, loader.rs)
\* ------------------------------------------------------------------------

\* SchemaMeta. dependencies is a HashMap in the source; it is kept as the
\* sequence of its entries in the order the map iterates them, an order the
\* hasher fixes when the map is built.
SchemaMeta(required, one_of, dependencies) ==
    [required |-> required, one_of |-> one_of, dependencies |-> dependencies]

\* SchemaRequirementSet
SchemaRequirementSet(required) == [required |-> required]

\* The sequences that list every element of the finite set S exactly once.
Orders(S) ==
    {q \in [1..Cardinality(S) -> S] : \A x \in S : \E i \in DOMAIN q : q[i] = x}

\* parse_schema_meta: required, oneOf and dependencies of an input
\* schema; the dependencies map may iterate in any order of its entries.
parse_schema_meta(schema) ==
    {SchemaMeta(schema.required,
                [i \in DOMAIN schema.oneOf |-> SchemaRequirementSet(schema.oneOf[i])],
                [i \in DOMAIN o |-> [field |-> o[i], deps |-> schema.dependencies[o[i]]]]) :
        o \in Orders(DOMAIN schema.dependencies)}

\* Raw tool definitions as they appear in a tools JSON document.
EchoDef ==
    [name |-> "echo", description |-> "echoes",
     inputSchema |-> [required |-> <<"msg">>, oneOf |-> <<>>,
                      dependencies |-> [f \in {} |-> <<>>]]]

\* The echo tool of the HTTP transport tests: a schema without constraints.
EchoOpenDef ==
    [name |-> "echo", description |-> "test",
     inputSchema |-> [required |-> <<>>, oneOf |-> <<>>,
                      dependencies |-> [f \in {} |-> <<>>]]]

FindDef ==
    [name |-> "find", description |-> "finds",
     inputSchema |-> [required |-> <<>>,
                      oneOf |-> << <<"phone">>, <<"email">> >>,
                      dependencies |-> [f \in {"phone", "email"} |-> <<"msg">>]]]

\* parse_tools, one definition: the Tool values the loader may produce.
parse_tool(val) ==
    {[name |-> val.name, description |-> val.description,
      input_schema |-> val.inputSchema, schema_meta |-> m] :
        m \in parse_schema_meta(val.inputSchema)}

\* Resource definitions (parse_resources deserialises them field by field).
TestResource ==
    [name |-> "test", description |-> "test resource",
     uri |-> "file:///test.csv", mime_type |-> "text/csv"]

NotesResource ==
    [name |-> "notes", description |-> "notes",
     uri |-> "file:///notes.txt", mime_type |-> "text/plain"]

\* ------------------------------------------------------------------------
\* Argument validator (validate.rs)
\* ------------------------------------------------------------------------

\* Index of the first element of seq that is not a key of obj, 0 when all are.
FirstMissing(seq, obj) ==
    IF \E i \in DOMAIN seq : seq[i] \notin obj
    THEN CHOOSE i \in DOMAIN seq :
            /\ seq[i] \notin obj
            /\ \A j \in DOMAIN seq : j < i => seq[j] \in obj
    ELSE 0

\* A validator that takes oneOf as JSON Schema does: exactly one group must
\* be satisfied.
validate_arguments_exactly_one(tool, args) ==
    LET obj == unwrap_or(as_object(args), {})
        meta == tool.schema_meta
        req == FirstMissing(meta.required, obj)
        sat == {i \in DOMAIN meta.one_of :
                    \A k \in DOMAIN meta.one_of[i].required :
                        meta.one_of[i].required[k] \in obj}
        deps == meta.dependencies
        bad(i) == deps[i].field \in obj /\ FirstMissing(deps[i].deps, obj) # 0
    IN  IF req # 0
        THEN Err(<<"missing required field \"", meta.required[req], "\"">>)
        ELSE IF meta.one_of # <<>> /\ Cardinality(sat) # 1
        THEN Err(<<"arguments must satisfy oneOf requirements">>)
        ELSE IF \E i \in DOMAIN deps : bad(i)
        THEN LET i == CHOOSE i \in DOMAIN deps :
                        bad(i) /\ \A j \in DOMAIN deps : j < i => ~bad(j)
             IN  Err(<<"field \"", deps[i].field, "\" requires \"",
                       deps[i].deps[FirstMissing(deps[i].deps, obj)],
                       "\" to also be present">>)
        ELSE Ok("unit")

\* A validator that checks oneOf before the required fields.
validate_arguments_one_of_first(tool, args) ==
    LET obj == unwrap_or(as_object(args), {})
        meta == tool.schema_meta
        req == FirstMissing(meta.required, obj)
        satisfied == \E i \in DOMAIN meta.one_of :
                        \A k \in DOMAIN meta.one_of[i].required :
                            meta.one_of[i].required[k] \in obj
        deps == meta.dependencies
        bad(i) == deps[i].field \in obj /\ FirstMissing(deps[i].deps, obj) # 0
    IN  IF meta.one_of # <<>> /\ ~satisfied
        THEN Err(<<"arguments must satisfy oneOf requirements">>)
        ELSE IF req # 0
        THEN Err(<<"missing required field \"", meta.required[req], "\"">>)
        ELSE IF \E i \in DOMAIN deps : bad(i)
        THEN LET i == CHOOSE i \in DOMAIN deps :
                        bad(i) /\ \A j \in DOMAIN deps : j < i => ~bad(j)
             IN  Err(<<"field \"", deps[i].field, "\" requires \"",
                       deps[i].deps[FirstMissing(deps[i].deps, obj)],
                       "\" to also be present">>)
        ELSE Ok("unit")

\* Tool::validate_arguments
validate_arguments(tool, args) ==
    LET obj == unwrap_or(as_object(args), {})
        meta == tool.schema_meta
        req == FirstMissing(meta.required, obj)
        satisfied == \E i \in DOMAIN meta.one_of :
                        \A k \in DOMAIN meta.one_of[i].required :
                            meta.one_of[i].required[k] \in obj
        deps == meta.dependencies
        bad(i) == deps[i].field \in obj /\ FirstMissing(deps[i].deps, obj) # 0
    IN  IF req # 0
        THEN Err(<<"missing required field \"", meta.required[req], "\"">>)
        ELSE IF meta.one_of # <<>> /\ ~satisfied
        THEN Err(<<"arguments must satisfy oneOf requirements">>)
        ELSE IF \E i \in DOMAIN deps : bad(i)
        THEN LET i == CHOOSE i \in DOMAIN deps :
                        bad(i) /\ \A j \in DOMAIN deps : j < i => ~bad(j)
             IN  Err(<<"field \"", deps[i].field, "\" requires \"",
                       deps[i].deps[FirstMissing(deps[i].deps, obj)],
                       "\" to also be present">>)
        ELSE Ok("unit")

\* ------------------------------------------------------------------------
\* Server state (server.rs, struct Server) and the dispatch in progress
\* ------------------------------------------------------------------------

VARIABLES
    tools,                  \* HashMap<String, Tool>
    resources,              \* HashMap<String, Resource>
    tool_handlers,          \* HashMap<String, Arc<dyn ToolHandler>>
    resource_handlers,      \* HashMap<String, Arc<dyn ResourceHandler>>
    initialize_result,      \* Arc<RawValue>
    tools_list_result,      \* Arc<RawValue>
    resources_list_result,  \* Arc<RawValue>
    registrations,          \* number of handle_tool / handle_resource calls so far
    pc,                     \* "idle", or "returned" once handle() has produced resp
    req,                    \* the request given to handle()
    context,                \* the context given to handle()
    resp,                   \* the McpResponse handle() returned
    calls,                  \* validator and handler invocations of that dispatch, in order
    builder,                \* ServerBuilder: tools, resources, server_name, server_version
    added,                  \* the tool definitions given to the builder, in call order
    builder_calls,          \* the builder methods that were given tool definitions
    latest_tool,            \* per tool name, the handler of the last handle_tool call
    latest_resource,        \* per resource name, the handler of the last handle_resource call
    replaced,               \* the registrations that a later call for the name replaced
    val,                    \* a tool, arguments, and the results of validating them
    probe,                  \* the first dispatch made on the server and its outcome
    announced,              \* an initialize or notifications/initialized was dispatched
    load,                   \* the bytes last given to parse_tools or parse_resources and the result
    exchange,               \* the HTTP exchange a transport is serving: request body, dispatcher calls, emitted response
    sessions,               \* HttpState::sessions
    db,                     \* the items of the store (DynamoApi), by key
    flight,                 \* per caller, the tool call it has in flight
    started,                \* number of tool calls started so far
    issued                  \* per OTP key, the tokens issued since an otp-request last stored it

server == <<tools, resources, tool_handlers, resource_handlers,
            initialize_result, tools_list_result, resources_list_result>>
dispatch == <<pc, req, context, resp, calls>>
construction == <<builder, added, builder_calls>>
registry_log == <<latest_tool, latest_resource, replaced>>
session_log == <<probe, announced>>
load_log == <<load>>
transport == <<exchange, sessions>>
app == <<db, flight, started, issued>>
vars == <<server, registrations, dispatch, construction, registry_log, val, session_log,
         load_log, transport, app>>

\* The callers that may have a tool call in flight at the same time.
MaxProcs == 2
Procs == 1..MaxProcs

\* No call in flight; nothing stored; no token issued.
NoCall == [pc |-> "free"]
NoApp ==
    /\ db = {}
    /\ flight = [p \in Procs |-> NoCall]
    /\ started = 0
    /\ issued = [k \in {} |-> 0]


\* No exchange is being served and no session was created.
NoExchange == [transport |-> "none"]
NoTraffic == exchange = NoExchange /\ sessions = {}


\* No bytes have been given to the loader.
NoLoad == [kind |-> "none"]
NothingLoaded == load = NoLoad


\* The empty HashMap.
EmptyMap == [n \in {} |-> None]

\* An insertion that leaves the entry of a key that is already present
\* (entry().or_insert()).
insert_keeps_existing(map, key, value) ==
    [k \in DOMAIN map \cup {key} |-> IF k \in DOMAIN map THEN map[k] ELSE value]

\* HashMap::insert
insert(map, key, value) ==
    [k \in DOMAIN map \cup {key} |-> IF k = key THEN value ELSE map[k]]

\* Vec<T> -> HashMap<String, T> keyed by name (collect): of two definitions
\* with one name the later one stays.
collect_by_name(defs) ==
    [n \in {defs[i].name : i \in DOMAIN defs} |->
        defs[CHOOSE i \in DOMAIN defs :
                /\ defs[i].name = n
                /\ \A j \in DOMAIN defs : defs[j].name = n => j <= i]]

\* Serialize for Tool: schema_meta is skipped.
ToolJson(t) ==
    [name |-> t.name, description |-> t.description, inputSchema |-> t.input_schema]

\* ServerBuilder::build
build(self) ==
    [tools |-> collect_by_name(self.tools),
     resources |-> collect_by_name(self.resources),
     tool_handlers |-> EmptyMap,
     resource_handlers |-> EmptyMap,
     initialize_result |->
        to_raw([protocolVersion |-> PROTOCOL_VERSION,
                capabilities |->
                    [tools |-> [listChanged |-> FALSE],
                     resources |-> [subscribe |-> FALSE, listChanged |-> FALSE]],
                serverInfo |-> [name |-> unwrap_or(self.server_name, "mcpserver"),
                                version |-> unwrap_or(self.server_version, "1.0.0")]]),
     tools_list_result |->
        to_raw([tools |-> [i \in DOMAIN self.tools |-> ToolJson(self.tools[i])]]),
     resources_list_result |-> to_raw([resources |-> self.resources])]

\* ServerBuilder::default
ServerBuilder_default ==
    [tools |-> <<>>, resources |-> <<>>, server_name |-> None, server_version |-> None]

\* A builder call that keeps only the definitions of the last call.
extend_replaces(vec, items) == items

\* Vec::extend
extend(vec, items) == vec \o items

\* Raw bytes given to tools_json or read from a file: a JSON array of tool
\* definitions, or bytes that are not JSON.
JsonArray(items) == [valid |-> TRUE, items |-> items]
NotJson == [valid |-> FALSE]

\* serde_json::from_slice::<Vec<Value>> (parse_tools, line 16)
from_slice(data) ==
    IF data.valid THEN Ok(data.items) ELSE Err(McpError("Other", "expected value"))

\* std::fs::read: one file holds a tool document, other paths do not exist.
fs_read(path) ==
    IF path = "tools.json"
    THEN Ok(JsonArray(<<EchoDef>>))
    ELSE Err(McpError("Other", "No such file or directory"))

\* ------------------------------------------------------------------------
\* Handlers (traits ToolHandler and ResourceHandler)
\* ------------------------------------------------------------------------

\* Tool handlers: one that succeeds, one that reports a business error as a
\* result, one that returns Err.
ToolHandlers == {"EchoHandler", "DenyHandler", "FailHandler"}

\* ToolHandler::call
ToolHandler_call(h, args, ctx) ==
    CASE h = "EchoHandler" ->
           Ok(text_result(<<"echo: ",
                IF args.kind = "object" /\ "msg" \in args.keys \ args.nulls
                THEN "hello" ELSE "no msg">>))
      [] h = "DenyHandler" -> Ok(error_result(<<"unauthorized">>))
      [] h = "FailHandler" -> Err(McpError("ToolError", "boom"))

\* Resource handlers: one that returns content, one that returns Err.
ResourceHandlers == {"ConfigHandler", "FailHandler"}

\* ResourceHandler::call
ResourceHandler_call(h, uri, ctx) ==
    CASE h = "ConfigHandler" ->
           Ok([uri |-> uri, mime_type |-> Some("application/json"),
               text |-> Some("{}"), blob |-> None])
      [] h = "FailHandler" -> Err(McpError("Other", "unreadable"))

\* ------------------------------------------------------------------------
\* Dispatcher (server.rs, impl Server)
\* ------------------------------------------------------------------------

\* A params object: the members name, arguments and uri it carries.
ParamsObject(name, arguments, uri) ==
    [kind |-> "object", name |-> name, arguments |-> arguments, uri |-> uri]

\* serde_json::from_value::<ToolCallParams>: name is required, arguments
\* defaults to Value::Null.
from_value_ToolCallParams(p) ==
    IF p.kind # "object"
    THEN Err("invalid type, expected struct ToolCallParams")
    ELSE IF ~p.name.some
    THEN Err("missing field name")
    ELSE Ok([name |-> p.name.v, arguments |-> unwrap_or(p.arguments, JNull)])

\* serde_json::from_value::<ResourceReadParams>: both members are optional.
from_value_ResourceReadParams(p) ==
    IF p.kind # "object"
    THEN Err("invalid type, expected struct ResourceReadParams")
    ELSE Ok([name |-> p.name, uri |-> p.uri])

\* What one dispatch produced: the response, and the validator and handler
\* invocations it made, in order.
Outcome(r, c) == [resp |-> r, calls |-> c]

\* Server::handle_initialize (the logging of clientInfo has no effect on state)
handle_initialize(id, params) == cached(id, initialize_result)

\* Server::handle_tools_list
handle_tools_list(id) == cached(id, tools_list_result)

\* Server::handle_resources_list
handle_resources_list(id) == cached(id, resources_list_result)

\* Arguments passed on as they came, a JSON null included.
normalize_arguments_keeps_null(arguments) == arguments

\* handle_tools_call, lines 169-173: null arguments become the empty object.
normalize_arguments(arguments) ==
    IF is_null(arguments) THEN JEmptyObject ELSE arguments

\* An unknown tool reported as invalid params.
unknown_tool_bad_params(id, name) ==
    error(id, ERR_CODE_BAD_PARAMS, <<"Unknown tool: ", name>>)

\* An unknown tool reported as an internal error.
unknown_tool_internal(id, name) ==
    error(id, ERR_CODE_INTERNAL, <<"Unknown tool: ", name>>)

\* handle_tools_call, lines 178-184: the tool is not in the catalog.
unknown_tool(id, name) ==
    error(id, ERR_CODE_NO_METHOD, <<"Unknown tool: ", name>>)

\* A missing handler reported as method not found.
no_handler_no_method(id, name) ==
    error(id, ERR_CODE_NO_METHOD, <<"no handler for tool: ", name>>)

\* handle_tools_call, lines 195-201: the tool has no registered handler.
no_handler(id, name) ==
    error(id, ERR_CODE_INTERNAL, <<"no handler for tool: ", name>>)

\* An Err of the handler passed on as an RPC error.
tool_call_response_propagates(id, r) ==
    IF r.is_ok THEN ok(id, ToolResultValue(r.v))
    ELSE error(id, ERR_CODE_INTERNAL, to_string(r.e))

\* handle_tools_call, lines 205-211: the result of the handler as a response.
tool_call_response(id, r) ==
    LET result == IF r.is_ok THEN r.v ELSE error_result(to_string(r.e))
    IN  ok(id, ToolResultValue(result))

\* Server::handle_tools_call
handle_tools_call(id, params, ctx) ==
    IF ~params.some
    THEN Outcome(error(id, ERR_CODE_BAD_PARAMS, <<"params required">>), <<>>)
    ELSE
    LET parsed == from_value_ToolCallParams(params.v) IN
    IF ~parsed.is_ok
    THEN Outcome(error(id, ERR_CODE_BAD_PARAMS, <<"invalid params: ", parsed.e>>), <<>>)
    ELSE
    LET name == parsed.v.name
        args == normalize_arguments(parsed.v.arguments)
    IN
    IF name \notin DOMAIN tools
    THEN Outcome(unknown_tool(id, name), <<>>)
    ELSE
    LET v == validate_arguments(tools[name], args)
        validated == <<[op |-> "validate_arguments", name |-> tools[name].name,
                        args |-> args, result |-> v]>>
    IN
    IF ~v.is_ok
    THEN Outcome(error(id, ERR_CODE_BAD_PARAMS, v.e), validated)
    ELSE IF name \notin DOMAIN tool_handlers
    THEN Outcome(no_handler(id, name), validated)
    ELSE
    LET h == tool_handlers[name]
        invoked == [op |-> "ToolHandler::call", name |-> name, handler |-> h,
                    args |-> args, context |-> ctx]
    IN  Outcome(tool_call_response(id, ToolHandler_call(h, args, ctx)),
                Append(validated, invoked))

\* serde_json::to_value(&ResourceContent)
ResourceContentValue(c) ==
    [kind |-> "resource_content", uri |-> c.uri, mimeType |-> c.mime_type,
     text |-> c.text, blob |-> c.blob]

\* A resolution that falls back to the uri when the name is not in the catalog.
resolve_falls_back_to_uri(name, uri) ==
    IF name.some /\ name.v \in DOMAIN resources
    THEN {resources[name.v]}
    ELSE {resources[n] : n \in {m \in DOMAIN resources :
                                    resources[m].uri = unwrap_or(uri, "")}}

\* handle_resources_read, lines 246-252: the resources the request may
\* resolve to. A name is looked up in the catalog; without a name the catalog
\* values are scanned for the uri, in an order the HashMap does not fix, so
\* every resource with that uri is a possible target.
resolve(name, uri) ==
    IF name.some
    THEN {resources[n] : n \in DOMAIN resources \cap {name.v}}
    ELSE {resources[n] : n \in {m \in DOMAIN resources :
                                    resources[m].uri = unwrap_or(uri, "")}}

\* The fallback content of a resource without handler.
FallbackContent(target) ==
    [kind |-> "resource_content", uri |-> target.uri,
     mimeType |-> Some(target.mime_type), text |-> Some(""), blob |-> None]

\* The call event of a resource handler.
ResourceHandlerCall(target, h, ctx) ==
    [op |-> "ResourceHandler::call", name |-> target.name,
     handler |-> h, uri |-> target.uri, context |-> ctx]

\* A read that reports the error of the handler as invalid params.
read_resource_err_bad_params(id, target, ctx) ==
    IF target.name \in DOMAIN resource_handlers
    THEN LET h == resource_handlers[target.name]
             r == ResourceHandler_call(h, target.uri, ctx)
         IN  IF r.is_ok
             THEN Outcome(ok(id, [kind |-> "contents",
                                  contents |-> <<ResourceContentValue(r.v)>>]),
                          <<ResourceHandlerCall(target, h, ctx)>>)
             ELSE Outcome(error(id, ERR_CODE_BAD_PARAMS,
                                <<"read resource: ">> \o to_string(r.e)),
                          <<ResourceHandlerCall(target, h, ctx)>>)
    ELSE Outcome(ok(id, [kind |-> "contents", contents |-> <<FallbackContent(target)>>]),
                 <<>>)

\* handle_resources_read, lines 264-288: the resolved resource is read by
\* the handler registered under its name, or answered with the fallback.
read_resource(id, target, ctx) ==
    IF target.name \in DOMAIN resource_handlers
    THEN LET h == resource_handlers[target.name]
             r == ResourceHandler_call(h, target.uri, ctx)
         IN  IF r.is_ok
             THEN Outcome(ok(id, [kind |-> "contents",
                                  contents |-> <<ResourceContentValue(r.v)>>]),
                          <<ResourceHandlerCall(target, h, ctx)>>)
             ELSE Outcome(error(id, ERR_CODE_INTERNAL,
                                <<"read resource: ">> \o to_string(r.e)),
                          <<ResourceHandlerCall(target, h, ctx)>>)
    ELSE Outcome(ok(id, [kind |-> "contents", contents |-> <<FallbackContent(target)>>]),
                 <<>>)

\* Server::handle_resources_read
handle_resources_read(id, params, ctx) ==
    IF ~params.some
    THEN {Outcome(error(id, ERR_CODE_BAD_PARAMS, <<"params required">>), <<>>)}
    ELSE
    LET parsed == from_value_ResourceReadParams(params.v) IN
    IF ~parsed.is_ok
    THEN {Outcome(error(id, ERR_CODE_BAD_PARAMS, <<"invalid params: ", parsed.e>>), <<>>)}
    ELSE
    LET p == parsed.v IN
    IF ~p.name.some /\ ~p.uri.some
    THEN {Outcome(error(id, ERR_CODE_BAD_PARAMS,
                        <<"either name or uri must be provided">>), <<>>)}
    ELSE
    LET targets == resolve(p.name, p.uri)
    IN  IF targets = {}
        THEN {Outcome(error(id, ERR_CODE_BAD_PARAMS, <<"resource not found">>), <<>>)}
        ELSE {read_resource(id, t, ctx) : t \in targets}

\* A method switch without the notifications/cancelled arm.
route_misses_cancelled(r, ctx) ==
    CASE r.method = "initialize" -> {Outcome(handle_initialize(r.id, r.params), <<>>)}
      [] r.method = "ping" -> {Outcome(ok(r.id, JEmptyObject), <<>>)}
      [] r.method = "notifications/initialized" -> {Outcome(notification, <<>>)}
      [] r.method = "tools/list" -> {Outcome(handle_tools_list(r.id), <<>>)}
      [] r.method = "tools/call" -> {handle_tools_call(r.id, r.params, ctx)}
      [] r.method = "resources/list" -> {Outcome(handle_resources_list(r.id), <<>>)}
      [] r.method = "resources/read" -> handle_resources_read(r.id, r.params, ctx)
      [] OTHER -> {Outcome(error(r.id, ERR_CODE_NO_METHOD,
                                 <<"Method not found: ", r.method>>), <<>>)}

\* Server::handle, lines 100-113: the method switch.
route(r, ctx) ==
    CASE r.method = "initialize" -> {Outcome(handle_initialize(r.id, r.params), <<>>)}
      [] r.method = "ping" -> {Outcome(ok(r.id, JEmptyObject), <<>>)}
      [] r.method \in {"notifications/initialized", "notifications/cancelled"} ->
           {Outcome(notification, <<>>)}
      [] r.method = "tools/list" -> {Outcome(handle_tools_list(r.id), <<>>)}
      [] r.method = "tools/call" -> {handle_tools_call(r.id, r.params, ctx)}
      [] r.method = "resources/list" -> {Outcome(handle_resources_list(r.id), <<>>)}
      [] r.method = "resources/read" -> handle_resources_read(r.id, r.params, ctx)
      [] OTHER -> {Outcome(error(r.id, ERR_CODE_NO_METHOD,
                                 <<"Method not found: ", r.method>>), <<>>)}

\* A dispatcher that does not check the protocol tag.
handle_unchecked(r, ctx) == route(r, ctx)

\* A dispatcher with a session: tools/call, tools/list and resources/read are
\* refused until an initialize or notifications/initialized has been seen.
handle_requires_initialize(r, ctx) ==
    IF r.jsonrpc # "2.0"
    THEN {Outcome(error(r.id, ERR_CODE_INVALID_REQ, <<"jsonrpc must be '2.0'">>), <<>>)}
    ELSE IF r.method \in {"tools/call", "tools/list", "resources/read"} /\ ~announced
    THEN {Outcome(error(r.id, ERR_CODE_INVALID_REQ, <<"server not initialized">>), <<>>)}
    ELSE route(r, ctx)

\* Server::handle: the outcomes the dispatch of r may have.
handle(r, ctx) ==
    IF r.jsonrpc # "2.0"
    THEN {Outcome(error(r.id, ERR_CODE_INVALID_REQ, <<"jsonrpc must be '2.0'">>), <<>>)}
    ELSE route(r, ctx)

\* ------------------------------------------------------------------------
\* Inputs
\* ------------------------------------------------------------------------

\* Builder inputs: the tool documents given to tools_json and the resource
\* lists given to resources.
ToolDocuments == {<<EchoDef, FindDef>>, <<EchoOpenDef>>}
ResourceLists == {<<TestResource, NotesResource>>}

\* parse_tools: the Vec<Tool> values a document may load as.
parse_tools(doc) ==
    {ts \in [DOMAIN doc -> UNION {parse_tool(doc[i]) : i \in DOMAIN doc}] :
        \A i \in DOMAIN doc : ts[i] \in parse_tool(doc[i])}

\* loader::parse_tools on raw bytes: the error of from_slice, or the tools of
\* the document.
parse_tools_bytes(data) ==
    LET raw == from_slice(data)
    IN  IF raw.is_ok THEN {Ok(ts) : ts \in parse_tools(raw.v)} ELSE {Err(raw.e)}

\* loader::load_tools
load_tools(path) ==
    LET data == fs_read(path)
    IN  IF data.is_ok THEN parse_tools_bytes(data.v) ELSE {Err(data.e)}

\* Inputs of the builder calls: bytes for tools_json, Vec<Tool> values for
\* tools, paths for tools_file, Vec<Resource> values for resources.
BuilderDocuments == {JsonArray(d) : d \in ToolDocuments \cup {<<FindDef>>}} \cup {NotJson}
ToolVecs == UNION {parse_tools(d) : d \in ToolDocuments \cup {<<FindDef>>}}
Paths == {"tools.json", "missing.json"}
ResourceVecs == ResourceLists \cup {<<TestResource>>}

\* Names used in registrations and in params: catalog names and a name that
\* no catalog holds.
ToolNames == {"echo", "find", "ghost"}
ResourceNames == {"test", "ghost"}
Uris == {"file:///test.csv", "file:///notes.txt", "file:///none"}

Ids == {None, Some(JNumber(1)), Some(JString("a"))}
ProtocolTags == {"2.0", "1.0"}
Methods ==
    {"initialize", "ping", "notifications/initialized", "notifications/cancelled",
     "notifications/progress", "tools/list", "tools/call", "resources/list",
     "resources/read", "unknown/method"}
Contexts == {JNull, JObject({"sub"}, {})}

ArgKeys == {"msg", "phone", "email"}
Arguments ==
    {None, Some(JNull), Some(JString("x")), Some(JObject({"msg"}, {"msg"}))}
        \cup {Some(JObject(K, {})) : K \in SUBSET ArgKeys}

AnyParams == {None, Some(JString("x")), Some(ParamsObject(None, None, None))}
ToolCallParamsSet ==
    {Some(ParamsObject(Some(n), a, None)) : n \in ToolNames, a \in Arguments}
        \cup {Some(ParamsObject(None, Some(JEmptyObject), None))}
ResourceReadParamsSet ==
    {Some(ParamsObject(n, None, u)) :
        n \in {None} \cup {Some(x) : x \in ResourceNames},
        u \in {None} \cup {Some(x) : x \in Uris}}

\* The params tried with a method: every shape with the two methods that
\* read them, and a sample of shapes with the others.
ParamsOf(method) ==
    CASE method = "tools/call" ->
           AnyParams \cup ToolCallParamsSet
               \cup {Some(ParamsObject(None, None, Some("file:///test.csv")))}
      [] method = "resources/read" ->
           AnyParams \cup ResourceReadParamsSet
               \cup {Some(ParamsObject(Some("test"), Some(JEmptyObject), None))}
      [] OTHER ->
           AnyParams \cup {Some(ParamsObject(Some("echo"), Some(JObject({"msg"}, {})), None))}

\* JsonRpcRequest
JsonRpcRequest(jsonrpc, id, method, params) ==
    [jsonrpc |-> jsonrpc, id |-> id, method |-> method, params |-> params]

Requests ==
    UNION {{JsonRpcRequest("2.0", i, m, p) : i \in Ids, p \in ParamsOf(m)} :
              m \in Methods}
    \cup
    {JsonRpcRequest(j, i, m, p) :
        j \in ProtocolTags \ {"2.0"}, i \in Ids, m \in Methods,
        p \in ParamsOf("ping")}

\* The requests dispatched on a server whose construction is explored.
BuildRequests ==
    {JsonRpcRequest("2.0", Some(JNumber(1)), m, None) :
        m \in {"initialize", "tools/list", "resources/list"}}

\* Requests as a caller of Server::handle may construct them: the id may
\* also be Some(Value::Null), which no deserialised request carries (a JSON
\* null id deserialises to None).
WireIds == Ids \cup {Some(JNull)}
WireParams == ParamsOf("ping") \cup {Some(ParamsObject(Some("test"), None, None))}
WireRequests ==
    {JsonRpcRequest(j, i, m, p) :
        j \in ProtocolTags, i \in WireIds, m \in Methods, p \in WireParams}

\* The requests of a session: the handshake, the lists, calls and reads.
SessionRequests ==
    {JsonRpcRequest("2.0", Some(JNumber(1)), "initialize", None),
     JsonRpcRequest("2.0", None, "notifications/initialized", None),
     JsonRpcRequest("2.0", Some(JNumber(1)), "ping", None),
     JsonRpcRequest("2.0", Some(JNumber(1)), "tools/list", None),
     JsonRpcRequest("2.0", Some(JNumber(1)), "resources/list", None),
     JsonRpcRequest("2.0", Some(JNumber(1)), "tools/call",
                    Some(ParamsObject(Some("echo"), Some(JObject({"msg"}, {})), None))),
     JsonRpcRequest("2.0", Some(JNumber(1)), "tools/call",
                    Some(ParamsObject(Some("find"), Some(JObject({"phone"}, {})), None))),
     JsonRpcRequest("2.0", Some(JNumber(1)), "resources/read",
                    Some(ParamsObject(Some("test"), None, None))),
     JsonRpcRequest("2.0", Some(JNumber(1)), "resources/read",
                    Some(ParamsObject(None, None, Some("file:///notes.txt"))))}

\* No request and no response: the values of req and resp between dispatches.
NoRequest == [jsonrpc |-> "", id |-> None, method |-> "", params |-> None]
NoResponse == [id |-> None, kind |-> [variant |-> "None"]]

\* ------------------------------------------------------------------------
\* Specification
\* ------------------------------------------------------------------------

\* No dispatch has been made on the server yet.
NoProbe == [set |-> FALSE, req |-> NoRequest, context |-> JNull,
            outcome |-> Outcome(NoResponse, <<>>)]

\* No validation outside a dispatch is under way.
NoValidation == [tool |-> [schema_meta |-> SchemaMeta(<<>>, <<>>, <<>>)],
                 args |-> JNull, results |-> <<>>]

\* No handle_tool and no handle_resource call has been made.
NothingRegistered ==
    /\ latest_tool = [n \in ToolNames |-> "none"]
    /\ latest_resource = [n \in ResourceNames |-> "none"]
    /\ replaced = {}

\* The registration a call for this name replaces, if it replaces one: the
\* name had a handler and the call brings another.
Replaces(kind, latest, name, handler) ==
    IF latest[name] \notin {"none", handler}
    THEN {[kind |-> kind, name |-> name, handler |-> latest[name]]}
    ELSE {}

\* The state after Server::builder()....build(): catalogs and cached payloads
\* from the builder inputs, no handler registered, nothing dispatched.
Init ==
    \E doc \in ToolDocuments, rs \in ResourceLists :
    \E ts \in parse_tools(doc) :
        LET b == [tools |-> ts, resources |-> rs,
                  server_name |-> Some("test-server"),
                  server_version |-> Some("0.1.0")]
            srv == build(b)
        IN  /\ builder = b
            /\ added = [i \in DOMAIN doc |-> doc[i]]
            /\ builder_calls = {"tools_json"}
            /\ NothingRegistered
            /\ val = NoValidation
            /\ probe = NoProbe
            /\ announced = FALSE
            /\ NothingLoaded
            /\ NoTraffic
            /\ NoApp
            /\ tools = srv.tools
            /\ resources = srv.resources
            /\ tool_handlers = srv.tool_handlers
            /\ resource_handlers = srv.resource_handlers
            /\ initialize_result = srv.initialize_result
            /\ tools_list_result = srv.tools_list_result
            /\ resources_list_result = srv.resources_list_result
            /\ registrations = 0
            /\ pc = "idle"
            /\ req = NoRequest
            /\ context = JNull
            /\ resp = NoResponse
            /\ calls = <<>>

\* A registration that rebuilds the tools/list payload so that it advertises
\* only the tools that have a handler.
HandleTool_refreshes_list(name, handler) ==
    /\ pc = "idle"
    /\ registrations < MaxRegs
    /\ tool_handlers' = insert(tool_handlers, name, handler)
    /\ registrations' = registrations + 1
    /\ tools_list_result' =
            to_raw([tools |-> SelectSeq(from_str(tools_list_result).tools,
                                        LAMBDA t : t.name \in DOMAIN tool_handlers')])
    /\ latest_tool' = [latest_tool EXCEPT ![name] = handler]
    /\ replaced' = replaced \cup Replaces("tool", latest_tool, name, handler)
    /\ UNCHANGED <<tools, resources, resource_handlers, initialize_result,
                   resources_list_result, dispatch, construction, latest_resource, val, session_log, load_log, transport, app>>

\* Server::handle_tool
HandleTool(name, handler) ==
    /\ pc = "idle"
    /\ registrations < MaxRegs
    /\ tool_handlers' = insert(tool_handlers, name, handler)
    /\ registrations' = registrations + 1
    /\ latest_tool' = [latest_tool EXCEPT ![name] = handler]
    /\ replaced' = replaced \cup Replaces("tool", latest_tool, name, handler)
    /\ UNCHANGED <<tools, resources, resource_handlers, initialize_result,
                   tools_list_result, resources_list_result, dispatch, construction,
                   latest_resource, val, session_log, load_log, transport, app>>

\* Server::handle_resource
HandleResource(name, handler) ==
    /\ pc = "idle"
    /\ registrations < MaxRegs
    /\ resource_handlers' = insert(resource_handlers, name, handler)
    /\ registrations' = registrations + 1
    /\ latest_resource' = [latest_resource EXCEPT ![name] = handler]
    /\ replaced' = replaced \cup Replaces("resource", latest_resource, name, handler)
    /\ UNCHANGED <<tools, resources, tool_handlers, initialize_result,
                   tools_list_result, resources_list_result, dispatch, construction,
                   latest_tool, val, session_log, load_log, transport, app>>

\* Server::handle(req, context): one whole dispatch, from the call to the
\* returned response. &self: the server is left as it was.
Handle(r, ctx) ==
    /\ pc = "idle"
    /\ \E o \in handle(r, ctx) :
          /\ resp' = o.resp
          /\ calls' = o.calls
    /\ req' = r
    /\ context' = ctx
    /\ pc' = "returned"
    /\ UNCHANGED <<server, registrations, construction, registry_log, val, session_log, load_log, transport, app>>

\* The caller takes the response (handle_mcp, after the await of handle):
\* the dispatch is over and the next request may come.
Respond ==
    /\ pc = "returned"
    /\ pc' = "idle"
    /\ req' = NoRequest
    /\ context' = JNull
    /\ resp' = NoResponse
    /\ calls' = <<>>
    /\ UNCHANGED <<server, registrations, construction, registry_log, val, session_log, load_log, transport, app>>

Next ==
    \/ \E n \in ToolNames, h \in ToolHandlers : HandleTool(n, h)
    \/ \E n \in ResourceNames, h \in ResourceHandlers : HandleResource(n, h)
    \/ \E r \in Requests, ctx \in Contexts : Handle(r, ctx)
    \/ Respond

Spec == Init /\ [][Next]_vars

\* ------------------------------------------------------------------------
\* A session: handlers are registered, then requests are served
\* ------------------------------------------------------------------------

\* Server::handle(req, context), with the first dispatch remembered and the
\* handshake requests noted.
HandleObserved(r, ctx) ==
    /\ pc = "idle"
    /\ \E o \in handle(r, ctx) :
          /\ resp' = o.resp
          /\ calls' = o.calls
          /\ probe' = IF probe.set THEN probe
                      ELSE [set |-> TRUE, req |-> r, context |-> ctx, outcome |-> o]
    /\ req' = r
    /\ context' = ctx
    /\ pc' = "returned"
    /\ announced' = (announced \/ r.method \in {"initialize", "notifications/initialized"})
    /\ UNCHANGED <<server, registrations, construction, registry_log, val, load_log, transport, app>>

\* Server::handle_tool and Server::handle_resource, called before the server
\* begins serving.
RegisterTool(name, handler) ==
    /\ ~probe.set
    /\ HandleTool(name, handler)

RegisterResource(name, handler) ==
    /\ ~probe.set
    /\ HandleResource(name, handler)

NextSession ==
    \/ \E n \in ToolNames, h \in ToolHandlers : RegisterTool(n, h)
    \/ \E n \in ResourceNames, h \in ResourceHandlers : RegisterResource(n, h)
    \/ \E r \in SessionRequests, ctx \in Contexts : HandleObserved(r, ctx)
    \/ Respond

SpecSession == Init /\ [][NextSession]_vars

\* The server called directly, with every id a caller may give.
NextWire ==
    \/ \E n \in ToolNames, h \in ToolHandlers : HandleTool(n, h)
    \/ \E n \in ResourceNames, h \in ResourceHandlers : HandleResource(n, h)
    \/ \E r \in WireRequests : Handle(r, JNull)
    \/ Respond

SpecWire == Init /\ [][NextWire]_vars

\* ------------------------------------------------------------------------
\* Construction of a server (ServerBuilder)
\* ------------------------------------------------------------------------

\* Server::builder(): an empty builder and no server yet.
InitBuild ==
    /\ builder = ServerBuilder_default
    /\ added = <<>>
    /\ builder_calls = {}
    /\ NothingRegistered
    /\ val = NoValidation
    /\ probe = NoProbe
    /\ announced = FALSE
    /\ NothingLoaded
    /\ NoTraffic
    /\ NoApp
    /\ tools = EmptyMap
    /\ resources = EmptyMap
    /\ tool_handlers = EmptyMap
    /\ resource_handlers = EmptyMap
    /\ initialize_result = to_raw(JNull)
    /\ tools_list_result = to_raw(JNull)
    /\ resources_list_result = to_raw(JNull)
    /\ registrations = 0
    /\ pc = "building"
    /\ req = NoRequest
    /\ context = JNull
    /\ resp = NoResponse
    /\ calls = <<>>

\* The builder takes the loaded tools, or stays as it is when loading failed
\* (the error is only logged).
TakeLoaded(loaded, method) ==
    IF loaded.is_ok
    THEN /\ Len(builder.tools) + Len(loaded.v) <= MaxTools
         /\ builder' = [builder EXCEPT !.tools = extend(@, loaded.v)]
         /\ added' = added \o [i \in DOMAIN loaded.v |-> ToolJson(loaded.v[i])]
         /\ builder_calls' = builder_calls \cup {method}
    ELSE UNCHANGED construction

\* ServerBuilder::tools
BuilderTools(ts) ==
    /\ pc = "building"
    /\ TakeLoaded(Ok(ts), "tools")
    /\ UNCHANGED <<server, registrations, dispatch, registry_log, val, session_log, load_log, transport, app>>

\* ServerBuilder::tools_json
BuilderToolsJson(data) ==
    /\ pc = "building"
    /\ \E loaded \in parse_tools_bytes(data) : TakeLoaded(loaded, "tools_json")
    /\ UNCHANGED <<server, registrations, dispatch, registry_log, val, session_log, load_log, transport, app>>

\* ServerBuilder::tools_file
BuilderToolsFile(path) ==
    /\ pc = "building"
    /\ \E loaded \in load_tools(path) : TakeLoaded(loaded, "tools_file")
    /\ UNCHANGED <<server, registrations, dispatch, registry_log, val, session_log, load_log, transport, app>>

\* ServerBuilder::resources
BuilderResources(rs) ==
    /\ pc = "building"
    /\ Len(builder.resources) + Len(rs) <= MaxResources
    /\ builder' = [builder EXCEPT !.resources = extend(@, rs)]
    /\ UNCHANGED <<added, builder_calls, server, registrations, dispatch, registry_log, val, session_log, load_log, transport, app>>

\* ServerBuilder::server_info
BuilderServerInfo(name, version) ==
    /\ pc = "building"
    /\ builder' = [builder EXCEPT !.server_name = Some(name),
                                  !.server_version = Some(version)]
    /\ UNCHANGED <<added, builder_calls, server, registrations, dispatch, registry_log, val, session_log, load_log, transport, app>>

\* ServerBuilder::build: the builder is consumed and the server exists.
Build ==
    /\ pc = "building"
    /\ LET srv == build(builder)
       IN  /\ tools' = srv.tools
           /\ resources' = srv.resources
           /\ tool_handlers' = srv.tool_handlers
           /\ resource_handlers' = srv.resource_handlers
           /\ initialize_result' = srv.initialize_result
           /\ tools_list_result' = srv.tools_list_result
           /\ resources_list_result' = srv.resources_list_result
    /\ pc' = "idle"
    /\ UNCHANGED <<registrations, req, context, resp, calls, construction, registry_log, val, session_log, load_log, transport, app>>

NextBuild ==
    \/ \E ts \in ToolVecs : BuilderTools(ts)
    \/ \E data \in BuilderDocuments : BuilderToolsJson(data)
    \/ \E path \in Paths : BuilderToolsFile(path)
    \/ \E rs \in ResourceVecs : BuilderResources(rs)
    \/ BuilderServerInfo("test-server", "0.1.0")
    \/ Build
    \/ \E r \in BuildRequests : Handle(r, JNull)
    \/ Respond

SpecBuild == InitBuild /\ [][NextBuild]_vars

\* ------------------------------------------------------------------------
\* Properties of the dispatcher
\* ------------------------------------------------------------------------

\* handle() has returned and its response has not been taken yet.
Returned == pc = "returned"

\* The dispatch in progress is a tools/call that passed the protocol check
\* and whose params name a tool.
NamedToolCall ==
    /\ Returned
    /\ req.jsonrpc = "2.0"
    /\ req.method = "tools/call"
    /\ req.params.some
    /\ req.params.v.kind = "object"
    /\ req.params.v.name.some

CalledName == req.params.v.name.v
CalledArguments == unwrap_or(req.params.v.arguments, JNull)
HandlerCalls == {i \in DOMAIN calls : calls[i].op = "ToolHandler::call"}
ValidatorCalls == {i \in DOMAIN calls : calls[i].op = "validate_arguments"}
AnyHandlerCalls ==
    {i \in DOMAIN calls : calls[i].op \in {"ToolHandler::call", "ResourceHandler::call"}}

IsError(r, code) == r.kind.variant = "Error" /\ r.kind.err.code = code

\* C1: every response handle() returns is either the notification sentinel
\* (no id, no result, no error) or carries exactly one of result and error,
\* in its structured form and in its serialised form.
C1_ResultXorError ==
    Returned =>
        LET j == into_json_rpc(resp)
            s == Serialize(resp)
        IN  /\ \/ JsonRpcResponse_is_notification(j)
               \/ j.result.some # j.error.some
            /\ \/ s.members = {"jsonrpc"}
               \/ ("result" \in s.members) # ("error" \in s.members)

C1_Witness ==
    /\ Returned
    /\ req.method = "tools/call"
    /\ into_json_rpc(resp).error.some
    /\ ~into_json_rpc(resp).result.some

\* C2: for every method other than notifications/initialized and
\* notifications/cancelled, the response carries the id of the request
\* (none when the request had none), on results and on errors.
C2_IdPreserved ==
    (Returned /\ req.method \notin {"notifications/initialized", "notifications/cancelled"})
        => /\ resp.id = req.id
           /\ into_json_rpc(resp).id = req.id
           /\ Serialize(resp).id = req.id
           /\ ("id" \in Serialize(resp).members) = req.id.some

C2_Witness ==
    /\ Returned
    /\ req.id = Some(JString("a"))
    /\ IsError(resp, ERR_CODE_INTERNAL)
    /\ resp.id = req.id

\* C3: a request tagged "2.0" with method notifications/initialized or
\* notifications/cancelled gets the notification sentinel, with no id even
\* when the request had one, and no handler is invoked.
C3_NotificationSentinel ==
    (/\ Returned
     /\ req.jsonrpc = "2.0"
     /\ req.method \in {"notifications/initialized", "notifications/cancelled"})
        => /\ is_notification(resp)
           /\ ~resp.id.some
           /\ JsonRpcResponse_is_notification(into_json_rpc(resp))
           /\ Serialize(resp).members = {"jsonrpc"}
           /\ calls = <<>>

C3_Witness ==
    /\ Returned
    /\ req.jsonrpc = "2.0"
    /\ req.method = "notifications/cancelled"
    /\ req.id.some
    /\ req.params.some
    /\ is_notification(resp)

\* C4: a request without an id is answered with the notification sentinel,
\* whatever its method.
C4_NoIdNoBody ==
    (Returned /\ ~req.id.some) => is_notification(resp)

\* C5: a request whose protocol tag is not "2.0" gets an invalid-request
\* error (-32600) with the id of the request, whatever its method, and no
\* handler is invoked.
C5_BadProtocolTag ==
    (Returned /\ req.jsonrpc # "2.0")
        => /\ IsError(resp, ERR_CODE_INVALID_REQ)
           /\ resp.id = req.id
           /\ calls = <<>>

C5_Witness ==
    /\ Returned
    /\ req.jsonrpc = "1.0"
    /\ req.method = "tools/call"
    /\ req.id.some
    /\ req.params = Some(ParamsObject(Some("echo"), Some(JObject({"msg"}, {})), None))
    /\ "echo" \in DOMAIN tool_handlers
    /\ IsError(resp, ERR_CODE_INVALID_REQ)

\* C6: in one tools/call dispatch the tool handler is invoked at most once,
\* and only after the validator has accepted the very arguments the handler
\* receives; absent or null arguments reach the validator and the handler as
\* the empty object; when validation fails the handler is not invoked and
\* the response is an invalid-params error (-32602) with the message of the
\* validator.
C6_ValidateThenInvoke ==
    NamedToolCall =>
        LET expected == IF is_null(CalledArguments) THEN JEmptyObject
                        ELSE CalledArguments
        IN  /\ Cardinality(HandlerCalls) <= 1
            /\ Cardinality(ValidatorCalls) <= 1
            /\ \A i \in HandlerCalls :
                  \E j \in ValidatorCalls :
                     /\ j < i
                     /\ calls[j].result.is_ok
                     /\ calls[j].args = calls[i].args
                     /\ calls[j].name = calls[i].name
            /\ \A i \in DOMAIN calls : calls[i].args = expected
            /\ \A j \in ValidatorCalls :
                  ~calls[j].result.is_ok =>
                     /\ HandlerCalls = {}
                     /\ resp = error(req.id, ERR_CODE_BAD_PARAMS, calls[j].result.e)

\* C6 case: null arguments, accepted as the empty object, reach the handler.
C6_Witness ==
    /\ NamedToolCall
    /\ req.params.v.arguments = Some(JNull)
    /\ HandlerCalls # {}
    /\ \A i \in HandlerCalls : calls[i].args = JEmptyObject

\* C6 case: the validator rejects and the handler, though registered, is not
\* invoked.
C6_RejectedReached ==
    /\ NamedToolCall
    /\ CalledName \in DOMAIN tool_handlers
    /\ ValidatorCalls # {}
    /\ \A j \in ValidatorCalls : ~calls[j].result.is_ok
    /\ HandlerCalls = {}
    /\ IsError(resp, ERR_CODE_BAD_PARAMS)

\* C7: a tools/call that names a tool unknown to the catalog returns
\* method-not-found (-32601) with message "Unknown tool: <name>", whatever
\* the arguments; nothing is validated and no handler is invoked.
C7_UnknownToolIsNoMethod ==
    (NamedToolCall /\ CalledName \notin DOMAIN tools)
        => /\ resp = error(req.id, ERR_CODE_NO_METHOD, <<"Unknown tool: ", CalledName>>)
           /\ ~IsError(resp, ERR_CODE_BAD_PARAMS)
           /\ calls = <<>>

\* C7 case: the arguments are ones the catalog tool find rejects.
C7_Witness ==
    /\ NamedToolCall
    /\ CalledName = "ghost"
    /\ "find" \in DOMAIN tools
    /\ ~validate_arguments(tools["find"], CalledArguments).is_ok
    /\ IsError(resp, ERR_CODE_NO_METHOD)

\* C8 as stated: every tools/call for a catalog tool without a handler
\* returns the internal error "no handler for tool: <name>".
C8_NoHandlerAlwaysInternal ==
    (/\ NamedToolCall
     /\ CalledName \in DOMAIN tools
     /\ CalledName \notin DOMAIN tool_handlers)
        => resp = error(req.id, ERR_CODE_INTERNAL, <<"no handler for tool: ", CalledName>>)

\* C8 amended: a tools/call for a catalog tool without a handler returns the
\* internal error (-32603) "no handler for tool: <name>" when its arguments
\* pass validation, and the invalid-params error (-32602) of the validator
\* when they do not; no handler is invoked.
C8_NoHandlerAfterValidation ==
    (/\ NamedToolCall
     /\ CalledName \in DOMAIN tools
     /\ CalledName \notin DOMAIN tool_handlers)
        => LET v == validate_arguments(tools[CalledName],
                                       normalize_arguments(CalledArguments))
           IN  /\ v.is_ok =>
                    resp = error(req.id, ERR_CODE_INTERNAL,
                                 <<"no handler for tool: ", CalledName>>)
               /\ ~v.is_ok => resp = error(req.id, ERR_CODE_BAD_PARAMS, v.e)
               /\ HandlerCalls = {}

C8_Witness ==
    /\ NamedToolCall
    /\ CalledName \in DOMAIN tools
    /\ CalledName \notin DOMAIN tool_handlers
    /\ tool_handlers # EmptyMap
    /\ IsError(resp, ERR_CODE_INTERNAL)

\* C9 as stated: a tools/call for a name that has a registered handler but
\* is not in the catalog is reported as an internal error (-32603).
C9_GhostHandlerInternal ==
    (/\ NamedToolCall
     /\ CalledName \in DOMAIN tool_handlers
     /\ CalledName \notin DOMAIN tools)
        => IsError(resp, ERR_CODE_INTERNAL)

\* C9 amended: a handler registered under a name that is not in the catalog
\* stays registered, and a tools/call for that name is reported as
\* method-not-found (-32601, "Unknown tool: <name>") without invoking it.
C9_GhostHandlerNoMethod ==
    (/\ NamedToolCall
     /\ CalledName \in DOMAIN tool_handlers
     /\ CalledName \notin DOMAIN tools)
        => /\ IsError(resp, ERR_CODE_NO_METHOD)
           /\ resp.kind.err.message = <<"Unknown tool: ", CalledName>>
           /\ AnyHandlerCalls = {}

C9_Witness ==
    /\ NamedToolCall
    /\ CalledName \in DOMAIN tool_handlers
    /\ CalledName \notin DOMAIN tools
    /\ registrations > 0
    /\ IsError(resp, ERR_CODE_NO_METHOD)

\* The tool handler invocation of the dispatch returned Err.
HandlerFailed ==
    /\ NamedToolCall
    /\ \E i \in HandlerCalls :
          ~ToolHandler_call(calls[i].handler, calls[i].args, calls[i].context).is_ok

\* C10: when the tool handler returns Err, the response is a result (not an
\* RPC error) with isError true and one text block holding the message of
\* the error, and it carries the id of the request.
C10_HandlerErrIsErrorResult ==
    HandlerFailed =>
        LET i == CHOOSE i \in HandlerCalls : TRUE
            e == ToolHandler_call(calls[i].handler, calls[i].args, calls[i].context).e
            j == into_json_rpc(resp)
        IN  /\ resp.kind.variant = "Result"
            /\ ~j.error.some
            /\ j.result.some
            /\ j.result.v.isError = Some(TRUE)
            /\ Len(j.result.v.content) = 1
            /\ j.result.v.content[1].block_type = "text"
            /\ j.result.v.content[1].text = Some(to_string(e))
            /\ j.id = req.id

C10_Witness ==
    /\ HandlerFailed
    /\ req.id = Some(JNumber(1))
    /\ resp.kind.variant = "Result"
    /\ resp.kind.value.isError = Some(TRUE)

\* ------------------------------------------------------------------------
\* The validator on its own (Tool::validate_arguments called directly)
\* ------------------------------------------------------------------------

\* The sequences of at most n elements of S without repetition.
InjectiveSeqs(S, n) ==
    UNION {{q \in [1..k -> S] : \A i, j \in 1..k : q[i] = q[j] => i = j} : k \in 0..n}

\* Schemas: required lists over the argument keys; oneOf lists as in the
\* validator tests, with a group of two fields and an empty group added;
\* dependencies of phone and email on the other keys, in every order in
\* which the map may iterate its entries.
RequiredLists == InjectiveSeqs(ArgKeys, MaxRequired)
OneOfLists ==
    {<<>>,
     <<SchemaRequirementSet(<<"phone">>)>>,
     <<SchemaRequirementSet(<<"phone">>), SchemaRequirementSet(<<"email">>)>>,
     <<SchemaRequirementSet(<<"phone", "msg">>), SchemaRequirementSet(<<"email">>)>>,
     <<SchemaRequirementSet(<<>>)>>}
DependencyMaps ==
    UNION {UNION {{[i \in DOMAIN o |-> [field |-> o[i], deps |-> d[o[i]]]] :
                      d \in [F -> UNION {InjectiveSeqs(ArgKeys \ {f}, MaxDeps) : f \in F}]} :
                  o \in Orders(F)} :
           F \in SUBSET {"phone", "email"}}
SchemaMetas ==
    {m \in {SchemaMeta(r, o, d) : r \in RequiredLists, o \in OneOfLists, d \in DependencyMaps} :
        \A i \in DOMAIN m.dependencies :
            \A k \in DOMAIN m.dependencies[i].deps :
                m.dependencies[i].deps[k] # m.dependencies[i].field}

\* Argument values: every object over the argument keys, objects whose
\* members are null, and values that are not objects.
ArgumentValues ==
    {JObject(K, {}) : K \in SUBSET ArgKeys}
        \cup {JObject({"msg"}, {"msg"}), JObject(ArgKeys, ArgKeys)}
        \cup {JNull, JString("x")}

\* A tool with some schema metadata and some arguments, not validated yet.
InitValidate ==
    /\ \E m \in SchemaMetas, v \in ArgumentValues :
          val = [tool |-> [schema_meta |-> m], args |-> v, results |-> <<>>]
    /\ builder = ServerBuilder_default
    /\ added = <<>>
    /\ builder_calls = {}
    /\ NothingRegistered
    /\ probe = NoProbe
    /\ announced = FALSE
    /\ NothingLoaded
    /\ NoTraffic
    /\ NoApp
    /\ tools = EmptyMap
    /\ resources = EmptyMap
    /\ tool_handlers = EmptyMap
    /\ resource_handlers = EmptyMap
    /\ initialize_result = to_raw(JNull)
    /\ tools_list_result = to_raw(JNull)
    /\ resources_list_result = to_raw(JNull)
    /\ registrations = 0
    /\ pc = "validating"
    /\ req = NoRequest
    /\ context = JNull
    /\ resp = NoResponse
    /\ calls = <<>>

\* A call in which the dependencies map iterates in an order of its own.
Validate_reorders ==
    /\ pc = "validating"
    /\ Len(val.results) < MaxValidations
    /\ \E o \in Orders(DOMAIN val.tool.schema_meta.dependencies) :
          LET deps == val.tool.schema_meta.dependencies
              tool == [schema_meta |->
                          [val.tool.schema_meta EXCEPT
                              !.dependencies = [i \in DOMAIN o |-> deps[o[i]]]]]
          IN  val' = [val EXCEPT !.results = Append(@, validate_arguments(tool, val.args))]
    /\ UNCHANGED <<server, registrations, dispatch, construction, registry_log, session_log, load_log, transport, app>>

\* tool.validate_arguments(&args): one more call on the same tool and the
\* same arguments.
Validate ==
    /\ pc = "validating"
    /\ Len(val.results) < MaxValidations
    /\ val' = [val EXCEPT !.results = Append(@, validate_arguments(val.tool, val.args))]
    /\ UNCHANGED <<server, registrations, dispatch, construction, registry_log, session_log, load_log, transport, app>>

NextValidate == Validate

SpecValidate == InitValidate /\ [][NextValidate]_vars

\* The keys of the validated arguments: none when they are not an object.
KeysOf(v) == IF v.kind = "object" THEN v.keys ELSE {}

\* (a) every required field is a key.
RequiredPresent(m, keys) == \A i \in DOMAIN m.required : m.required[i] \in keys

\* (b) there are no oneOf groups, or all fields of some group are keys.
OneOfSatisfied(m, keys) ==
    \/ m.one_of = <<>>
    \/ \E g \in DOMAIN m.one_of :
          \A k \in DOMAIN m.one_of[g].required : m.one_of[g].required[k] \in keys

\* The dependency entries that are violated: the field is a key and one of
\* the names it depends on is not.
ViolatedDependencies(m, keys) ==
    {i \in DOMAIN m.dependencies :
        /\ m.dependencies[i].field \in keys
        /\ \E k \in DOMAIN m.dependencies[i].deps : m.dependencies[i].deps[k] \notin keys}

\* C14: validate_arguments accepts exactly when every required field is a
\* key of the arguments, the oneOf list is empty or has a group whose fields
\* are all keys, and no dependency of a present key misses; a key with a
\* null value is present, and arguments that are not an object have no keys.
C14_AcceptsExactlyWhen ==
    \A c \in DOMAIN val.results :
        LET m == val.tool.schema_meta
            keys == KeysOf(val.args)
        IN  val.results[c].is_ok <=>
                /\ RequiredPresent(m, keys)
                /\ OneOfSatisfied(m, keys)
                /\ ViolatedDependencies(m, keys) = {}

\* Arguments whose members are all null are accepted by a schema with a
\* required field, two oneOf groups that are both satisfied and a dependency.
C14_Witness ==
    /\ val.results # <<>>
    /\ val.results[1].is_ok
    /\ val.args.kind = "object"
    /\ val.args.nulls = val.args.keys
    /\ val.tool.schema_meta.required # <<>>
    /\ Len(val.tool.schema_meta.one_of) > 1
    /\ \A g \in DOMAIN val.tool.schema_meta.one_of :
          \A k \in DOMAIN val.tool.schema_meta.one_of[g].required :
              val.tool.schema_meta.one_of[g].required[k] \in val.args.keys
    /\ val.tool.schema_meta.dependencies # <<>>

\* Arguments that are not an object are rejected by a schema that requires
\* a field and accepted by one that constrains nothing.
C14_NonObjectWitness ==
    /\ val.results # <<>>
    /\ val.args.kind # "object"
    /\ val.results[1].is_ok

\* The reasons a rejection may carry.
MissingRequired(f) == Err(<<"missing required field \"", f, "\"">>)
OneOfUnsatisfied == Err(<<"arguments must satisfy oneOf requirements">>)
DependencyMissing(f, d) == Err(<<"field \"", f, "\" requires \"", d, "\" to also be present">>)

\* C15: only the first failure is reported, required fields before oneOf
\* before dependencies. With a required field missing the reason names the
\* first missing one in the order of the required list, whatever else is
\* violated; the oneOf reason comes only with every required field present;
\* a dependency reason comes only with required and oneOf passed, and names
\* a present field and a name it depends on that is missing.
C15_FirstFailureOnly ==
    \A c \in DOMAIN val.results :
        LET m == val.tool.schema_meta
            keys == KeysOf(val.args)
            r == val.results[c]
        IN  /\ ~RequiredPresent(m, keys) =>
                  \E i \in DOMAIN m.required :
                      /\ m.required[i] \notin keys
                      /\ \A j \in 1..(i - 1) : m.required[j] \in keys
                      /\ r = MissingRequired(m.required[i])
            /\ r = OneOfUnsatisfied =>
                  RequiredPresent(m, keys) /\ ~OneOfSatisfied(m, keys)
            /\ (RequiredPresent(m, keys) /\ ~OneOfSatisfied(m, keys)) =>
                  r = OneOfUnsatisfied
            /\ (\E f, d \in ArgKeys : r = DependencyMissing(f, d)) =>
                  /\ RequiredPresent(m, keys)
                  /\ OneOfSatisfied(m, keys)
                  /\ \E i \in ViolatedDependencies(m, keys) :
                        \E k \in DOMAIN m.dependencies[i].deps :
                            /\ m.dependencies[i].deps[k] \notin keys
                            /\ r = DependencyMissing(m.dependencies[i].field,
                                                     m.dependencies[i].deps[k])
            /\ ~r.is_ok =>
                  \/ \E f \in ArgKeys : r = MissingRequired(f)
                  \/ r = OneOfUnsatisfied
                  \/ \E f, d \in ArgKeys : r = DependencyMissing(f, d)

\* Required, oneOf and a dependency are violated at once, the second
\* required field being the first one missing, and the reason names it.
C15_Witness ==
    /\ val.results # <<>>
    /\ Len(val.tool.schema_meta.required) = 2
    /\ val.tool.schema_meta.required[1] \in KeysOf(val.args)
    /\ val.tool.schema_meta.required[2] \notin KeysOf(val.args)
    /\ ~OneOfSatisfied(val.tool.schema_meta, KeysOf(val.args))
    /\ ViolatedDependencies(val.tool.schema_meta, KeysOf(val.args)) # {}
    /\ val.results[1] = MissingRequired(val.tool.schema_meta.required[2])

\* A dependency reason is returned: required and oneOf are not empty and pass.
C15_DependencyWitness ==
    /\ val.results # <<>>
    /\ val.tool.schema_meta.required # <<>>
    /\ val.tool.schema_meta.one_of # <<>>
    /\ \E f, d \in ArgKeys : val.results[1] = DependencyMissing(f, d)

Answered(method) == Returned /\ req.jsonrpc = "2.0" /\ req.method = method

\* C11: the tools/list result of a built server holds one entry for each
\* tool definition given to the builder through tools, tools_json and
\* tools_file, in the order they were given.
C11_ToolsListInBuilderOrder ==
    Answered("tools/list") =>
        LET j == into_json_rpc(resp)
        IN  /\ j.result.some
            /\ Len(j.result.v.tools) = Len(added)
            /\ j.result.v.tools = added

\* A server built by all three kinds of builder call lists its three tools,
\* two of them under one name.
C11_Witness ==
    /\ Answered("tools/list")
    /\ builder_calls = {"tools", "tools_json", "tools_file"}
    /\ Len(added) = 3
    /\ \E i, k \in DOMAIN added : i # k /\ added[i].name = added[k].name

\* The cached payloads are the ones build computed from the builder, and the
\* answers to initialize, tools/list and resources/list carry them.
PayloadsAsBuilt ==
    LET built == build(builder)
    IN  /\ initialize_result = built.initialize_result
        /\ tools_list_result = built.tools_list_result
        /\ resources_list_result = built.resources_list_result
        /\ Answered("initialize") =>
               into_json_rpc(resp).result = Some(from_str(built.initialize_result))
        /\ Answered("tools/list") =>
               into_json_rpc(resp).result = Some(from_str(built.tools_list_result))
        /\ Answered("resources/list") =>
               into_json_rpc(resp).result = Some(from_str(built.resources_list_result))

\* A step that is one dispatch: handle() is called and returns.
DispatchStep == pc = "idle" /\ pc' = "returned"

\* C12: whatever was registered and dispatched, the initialize, tools/list
\* and resources/list payloads are the ones computed at build time, and a
\* dispatch changes neither the catalogs, nor the cached payloads, nor the
\* handler registries.
C12_PayloadsAndServerUnchanged ==
    /\ [](pc # "building" => PayloadsAsBuilt)
    /\ [][DispatchStep => UNCHANGED server]_vars

\* tools/list is answered on a server on which tool and resource handlers
\* have been registered.
C12_Witness ==
    /\ Answered("tools/list")
    /\ registrations = MaxRegs
    /\ DOMAIN tool_handlers # {}
    /\ DOMAIN resource_handlers # {}

\* The registry holds, for each name, the handler of the last registration
\* for that name, and nothing for a name that was never registered.
HoldsLatest(registry, latest) ==
    /\ DOMAIN registry = {n \in DOMAIN latest : latest[n] # "none"}
    /\ \A n \in DOMAIN registry : registry[n] = latest[n]

C13_ResourceWitness ==
    /\ Answered("resources/read")
    /\ \E i \in DOMAIN calls :
          /\ calls[i].op = "ResourceHandler::call"
          /\ \E old \in replaced :
                /\ old.kind = "resource"
                /\ old.name = calls[i].name
                /\ old.handler # calls[i].handler

\* The response serialised and read back equals its structured form, and
\* the serialised map has an id member exactly when the response has an id.
RoundTrips(r) ==
    LET s == Serialize(r)
        d == Deserialize(s)
        j == into_json_rpc(r)
    IN  /\ d.jsonrpc = "2.0"
        /\ d.id = j.id
        /\ d.result = j.result
        /\ d.error = j.error
        /\ "id" \in s.members <=> r.id.some

C17_CachedReached == Returned /\ resp.kind.variant = "Cached" /\ resp.id = Some(JNumber(1))
C17_ErrorReached == Returned /\ resp.kind.variant = "Error" /\ ~resp.id.some

\* ------------------------------------------------------------------------
\* Properties of resources/read
\* ------------------------------------------------------------------------

\* The name and uri members of the params of the dispatched resources/read.
ReadParams ==
    /\ Answered("resources/read")
    /\ req.params.some
    /\ req.params.v.kind = "object"
GivenName == req.params.v.name
GivenUri == req.params.v.uri

\* The catalog resources the claim lets the request resolve to: the one of
\* the given name, or without a name those whose uri is the given uri.
Matching ==
    IF GivenName.some
    THEN {resources[n] : n \in {m \in DOMAIN resources : m = GivenName.v}}
    ELSE IF GivenUri.some
    THEN {resources[n] : n \in {m \in DOMAIN resources : resources[m].uri = GivenUri.v}}
    ELSE {}

\* The dispatch acted on resource t: its handler was called for it, or the
\* fallback content carries its uri and mimeType.
Served(t) ==
    \/ /\ Len(calls) = 1
       /\ calls[1].op = "ResourceHandler::call"
       /\ calls[1].name = t.name
       /\ calls[1].uri = t.uri
    \/ /\ calls = <<>>
       /\ resp.kind.variant = "Result"
       /\ Len(resp.kind.value.contents) = 1
       /\ resp.kind.value.contents[1].uri = t.uri
       /\ resp.kind.value.contents[1].mimeType = Some(t.mime_type)

InvalidParams(message) ==
    /\ resp = error(req.id, ERR_CODE_BAD_PARAMS, message)
    /\ AnyHandlerCalls = {}

\* C18: resources/read resolves by name through the catalog when a name is
\* given, the uri not being consulted then, and otherwise by a resource
\* whose uri is the given one; without params, without name and uri, and
\* without a matching resource it answers invalid params (-32602) and calls
\* no resource handler.
C18_ReadResolution ==
    /\ (Answered("resources/read") /\ ~req.params.some) =>
            InvalidParams(<<"params required">>)
    /\ (ReadParams /\ ~GivenName.some /\ ~GivenUri.some) =>
            InvalidParams(<<"either name or uri must be provided">>)
    /\ (ReadParams /\ (GivenName.some \/ GivenUri.some) /\ Matching = {}) =>
            InvalidParams(<<"resource not found">>)
    /\ (ReadParams /\ Matching # {}) => \E t \in Matching : Served(t)

\* A name that the catalog does not hold is given with the uri of a catalog
\* resource that has a handler: the answer is resource not found.
C18_Witness ==
    /\ ReadParams
    /\ GivenName.some /\ GivenName.v \notin DOMAIN resources
    /\ GivenUri.some
    /\ \E n \in DOMAIN resources :
          resources[n].uri = GivenUri.v /\ n \in DOMAIN resource_handlers
    /\ IsError(resp, ERR_CODE_BAD_PARAMS)

\* A resource is resolved by its uri, and one by its name with the uri of
\* another resource beside it.
C18_ByUriReached ==
    /\ ReadParams /\ ~GivenName.some /\ Matching # {}
    /\ \E t \in Matching : Served(t)
C18_ByNameReached ==
    /\ ReadParams /\ GivenName.some /\ GivenUri.some /\ Matching # {}
    /\ \E t \in Matching : t.uri # GivenUri.v /\ Served(t)

\* C19: for a resolved resource with a handler registered under its name
\* the handler is called exactly once, with the uri of the catalog and the
\* context of the request; its content is the result {contents:[content]}
\* and its error an internal error (-32603). Without a handler the result is
\* one content item with the uri of the resource, its mimeType and text "".
C19_ReadByHandlerOrFallback ==
    (ReadParams /\ Matching # {}) =>
        \E t \in Matching :
            IF t.name \in DOMAIN resource_handlers
            THEN LET h == resource_handlers[t.name]
                     r == ResourceHandler_call(h, t.uri, context)
                 IN  /\ calls = <<[op |-> "ResourceHandler::call", name |-> t.name,
                                    handler |-> h, uri |-> t.uri, context |-> context]>>
                     /\ r.is_ok =>
                           resp = ok(req.id, [kind |-> "contents",
                                              contents |-> <<ResourceContentValue(r.v)>>])
                     /\ ~r.is_ok =>
                           /\ resp.id = req.id
                           /\ IsError(resp, ERR_CODE_INTERNAL)
            ELSE /\ calls = <<>>
                 /\ resp = ok(req.id,
                              [kind |-> "contents",
                               contents |-> <<[kind |-> "resource_content",
                                               uri |-> t.uri,
                                               mimeType |-> Some(t.mime_type),
                                               text |-> Some(""),
                                               blob |-> None]>>])

\* A handler is called with the uri of the catalog while the params carry
\* another uri, and returns content.
C19_Witness ==
    /\ ReadParams
    /\ GivenName.some /\ GivenUri.some
    /\ Len(calls) = 1
    /\ calls[1].op = "ResourceHandler::call"
    /\ calls[1].uri # GivenUri.v
    /\ calls[1].uri = resources[GivenName.v].uri
    /\ calls[1].context # JNull
    /\ resp.kind.variant = "Result"

\* The handler fails, and a resource without handler gets the fallback.
C19_HandlerErrReached ==
    /\ ReadParams /\ Len(calls) = 1 /\ IsError(resp, ERR_CODE_INTERNAL)
C19_FallbackReached ==
    /\ ReadParams /\ Matching # {} /\ calls = <<>>
    /\ resource_handlers # EmptyMap
    /\ resp.kind.variant = "Result"

\* ------------------------------------------------------------------------
\* Properties of a session
\* ------------------------------------------------------------------------

\* The request of the first dispatch is dispatched again, with its context.
ProbeRepeated ==
    /\ Returned
    /\ probe.set
    /\ req = probe.req
    /\ context = probe.context

\* C20: handle() is stateless across requests. On the same catalogs and
\* registries a request with the same context gets the response, and makes
\* the validator and handler calls, that it got when it was the first
\* request dispatched, whatever was dispatched in between, an initialize or
\* notifications/initialized included.
C20_Stateless ==
    ProbeRepeated => Outcome(resp, calls) = probe.outcome

\* A tools/call that was the first request, before any handshake, is
\* repeated after an initialize or notifications/initialized, and reaches
\* its handler.
C20_Witness ==
    /\ ProbeRepeated
    /\ req.method = "tools/call"
    /\ announced
    /\ HandlerCalls # {}

\* The same for tools/list and for a resources/read.
C20_ListReached == ProbeRepeated /\ req.method = "tools/list" /\ announced
C20_ReadReached ==
    /\ ProbeRepeated /\ req.method = "resources/read" /\ announced
    /\ AnyHandlerCalls # {}

\* ------------------------------------------------------------------------
\* Definition loader on arbitrary JSON objects (loader.rs)
\* ------------------------------------------------------------------------

\* The longest JSON array given to the loader.
MaxDefs == 2

\* serde_json::Value::Object and Value::Array; the members of an object are a
\* function from the keys it has to their values.
JObjectOf(fields) == [kind |-> "object", fields |-> fields]
JArrayOf(items) == [kind |-> "array", items |-> items]
NoFields == [k \in {} |-> JNull]

\* Value::get(key): the member of an object, None for a missing key and for
\* a value that is not an object.
get(v, key) ==
    IF v.kind = "object" /\ key \in DOMAIN v.fields THEN Some(v.fields[key]) ELSE None

\* val[key] (Index for Value): Null where get gives None.
Index(v, key) == unwrap_or(get(v, key), JNull)

\* Value::as_str and Value::as_array
as_str(v) == IF v.kind = "string" THEN Some(v.s) ELSE None
as_array(v) == IF v.kind = "array" THEN Some(v.items) ELSE None

\* schema.get(key).and_then(|v| v.as_array())
get_array(v, key) ==
    IF get(v, key).some THEN as_array(get(v, key).v) ELSE None

\* iter().filter_map(|v| v.as_str().map(String::from)).collect()
collect_strings(items) ==
    LET strs == SelectSeq(items, LAMBDA v : as_str(v).some)
    IN  [i \in DOMAIN strs |-> strs[i].s]

\* parse_schema_meta on any JSON value: each of required, oneOf and
\* dependencies is read only when it is present with the expected shape;
\* the dependencies map may iterate in any order of its entries.
value_parse_schema_meta(schema) ==
    LET required == IF get_array(schema, "required").some
                    THEN collect_strings(get_array(schema, "required").v)
                    ELSE <<>>
        sets == IF get_array(schema, "oneOf").some
                THEN SelectSeq(get_array(schema, "oneOf").v,
                               LAMBDA v : get_array(v, "required").some)
                ELSE <<>>
        one_of == [i \in DOMAIN sets |->
                      SchemaRequirementSet(collect_strings(get_array(sets[i], "required").v))]
        obj == IF get(schema, "dependencies").some
                  /\ get(schema, "dependencies").v.kind = "object"
               THEN get(schema, "dependencies").v.fields
               ELSE NoFields
        keys == {k \in DOMAIN obj : as_array(obj[k]).some}
    IN  {SchemaMeta(required, one_of,
                    [i \in DOMAIN o |->
                        [field |-> o[i], deps |-> collect_strings(obj[o[i]].items)]]) :
            o \in Orders(keys)}

\* parse_tools, the body of the loop: name and description are the string
\* members or the empty string, input_schema is the member or Null.
value_parse_tool(v) ==
    LET input_schema == Index(v, "inputSchema")
    IN  {[name |-> unwrap_or(as_str(Index(v, "name")), ""),
          description |-> unwrap_or(as_str(Index(v, "description")), ""),
          input_schema |-> input_schema,
          schema_meta |-> m] : m \in value_parse_schema_meta(input_schema)}

\* loader::parse_tools on raw bytes whose array items are any JSON values:
\* the error of from_slice, or one Tool per item.
value_parse_tools(data) ==
    LET raw == from_slice(data)
    IN  IF raw.is_ok
        THEN {Ok(ts) : ts \in
                 {q \in [DOMAIN raw.v -> UNION {value_parse_tool(raw.v[i]) : i \in DOMAIN raw.v}] :
                     \A i \in DOMAIN raw.v : q[i] \in value_parse_tool(raw.v[i])}}
        ELSE {Err(raw.e)}

\* The members of a Resource in the JSON form (rename_all = "camelCase").
ResourceKeys == {"name", "description", "uri", "mimeType"}

\* Deserialize for Resource (derived): every member is required and must be
\* a string; members the struct does not have are ignored.
Deserialize_Resource(v) ==
    IF v.kind # "object"
    THEN Err(McpError("Json", "invalid type"))
    ELSE IF \E k \in ResourceKeys : ~get(v, k).some
    THEN Err(McpError("Json", "missing field"))
    ELSE IF \E k \in ResourceKeys : ~as_str(v.fields[k]).some
    THEN Err(McpError("Json", "invalid type"))
    ELSE Ok([name |-> v.fields["name"].s, description |-> v.fields["description"].s,
             uri |-> v.fields["uri"].s, mime_type |-> v.fields["mimeType"].s])

\* loader::parse_resources: serde_json::from_slice::<Vec<Resource>>; the
\* whole array fails when one item fails.
value_parse_resources(data) ==
    IF ~data.valid
    THEN Err(McpError("Json", "expected value"))
    ELSE IF \E i \in DOMAIN data.items : ~Deserialize_Resource(data.items[i]).is_ok
    THEN Err(Deserialize_Resource(
                data.items[CHOOSE i \in DOMAIN data.items :
                              /\ ~Deserialize_Resource(data.items[i]).is_ok
                              /\ \A j \in 1..(i - 1) :
                                    Deserialize_Resource(data.items[j]).is_ok]).e)
    ELSE Ok([i \in DOMAIN data.items |-> Deserialize_Resource(data.items[i]).v])

\* The objects with some of the given keys, each key with one of its values.
ObjectsOver(values) ==
    {JObjectOf(f) : f \in {g \in UNION {[D -> UNION {values[k] : k \in DOMAIN values}] :
                                           D \in SUBSET DOMAIN values} :
                              \A k \in DOMAIN g : g[k] \in values[k]}}

\* Tool objects: each member may be missing; a name may be a number; an
\* input schema may be null, empty, or hold a required list.
ToolObjects ==
    ObjectsOver([name |-> {JString("echo"), JNumber(1)},
                 description |-> {JString("echoes")},
                 inputSchema |-> {JNull, JObjectOf(NoFields),
                                  JObjectOf([required |-> JArrayOf(<<JString("msg")>>)])}])

\* Resource objects: each member may be missing.
ResourceObjects ==
    ObjectsOver([name |-> {JString("test")},
                 description |-> {JString("test resource")},
                 uri |-> {JString("file:///test.csv")},
                 mimeType |-> {JString("text/csv")}])

\* The arrays of at most MaxDefs items of S.
ArraysOf(S) == UNION {[1..n -> S] : n \in 0..MaxDefs}

ToolBytes == {JsonArray(a) : a \in ArraysOf(ToolObjects)} \cup {NotJson}
ResourceBytes == {JsonArray(a) : a \in ArraysOf(ResourceObjects)} \cup {NotJson}

\* Nothing is built and nothing is loaded yet.
InitLoad ==
    /\ load = NoLoad
    /\ NoTraffic
    /\ NoApp
    /\ val = NoValidation
    /\ builder = ServerBuilder_default
    /\ added = <<>>
    /\ builder_calls = {}
    /\ NothingRegistered
    /\ probe = NoProbe
    /\ announced = FALSE
    /\ tools = EmptyMap
    /\ resources = EmptyMap
    /\ tool_handlers = EmptyMap
    /\ resource_handlers = EmptyMap
    /\ initialize_result = to_raw(JNull)
    /\ tools_list_result = to_raw(JNull)
    /\ resources_list_result = to_raw(JNull)
    /\ registrations = 0
    /\ pc = "loading"
    /\ req = NoRequest
    /\ context = JNull
    /\ resp = NoResponse
    /\ calls = <<>>

\* parse_tools(data); the loader keeps no state, so one call is followed.
ParseTools(data) ==
    /\ pc = "loading"
    /\ load = NoLoad
    /\ \E r \in value_parse_tools(data) :
          load' = [kind |-> "tools", data |-> data, result |-> r]
    /\ UNCHANGED <<server, registrations, dispatch, construction, registry_log, val, session_log, transport, app>>

\* parse_resources(data)
ParseResources(data) ==
    /\ pc = "loading"
    /\ load = NoLoad
    /\ load' = [kind |-> "resources", data |-> data,
                  result |-> value_parse_resources(data)]
    /\ UNCHANGED <<server, registrations, dispatch, construction, registry_log, val, session_log, transport, app>>

NextLoad ==
    \/ \E data \in ToolBytes : ParseTools(data)
    \/ \E data \in ResourceBytes : ParseResources(data)

SpecLoad == InitLoad /\ [][NextLoad]_vars

\* The loader was given a JSON array of objects.
LoadedArray(kind) == load.kind = kind /\ load.data.valid

\* The item lacks the member.
Lacks(item, key) == ~get(item, key).some

\* The string member of the item, or the empty string when it is missing.
StringOrEmpty(item, key) == IF Lacks(item, key) THEN "" ELSE item.fields[key].s

\* C21: the loader is lenient. For a JSON array of objects, every tool or
\* resource object is loaded although it lacks members: the array is not
\* rejected, a missing name, description, uri or mimeType is the empty
\* string, and a missing inputSchema is the empty object with empty schema
\* metadata.
C21_LoaderLenient ==
    /\ LoadedArray("tools") =>
          /\ load.result.is_ok
          /\ Len(load.result.v) = Len(load.data.items)
          /\ \A i \in DOMAIN load.data.items :
                LET item == load.data.items[i]
                    t == load.result.v[i]
                IN  /\ Lacks(item, "name") => t.name = ""
                    /\ Lacks(item, "description") => t.description = ""
                    /\ Lacks(item, "inputSchema") =>
                          /\ t.input_schema = JObjectOf(NoFields)
                          /\ t.schema_meta = SchemaMeta(<<>>, <<>>, <<>>)
    /\ LoadedArray("resources") =>
          /\ load.result.is_ok
          /\ Len(load.result.v) = Len(load.data.items)
          /\ \A i \in DOMAIN load.data.items :
                LET item == load.data.items[i]
                    r == load.result.v[i]
                IN  /\ r.name = StringOrEmpty(item, "name")
                    /\ r.description = StringOrEmpty(item, "description")
                    /\ r.uri = StringOrEmpty(item, "uri")
                    /\ r.mime_type = StringOrEmpty(item, "mimeType")

\* A tool object without inputSchema is loaded with a null input schema.
C21_NullSchemaReached ==
    /\ LoadedArray("tools")
    /\ load.result.is_ok
    /\ \E i \in DOMAIN load.data.items :
          /\ Lacks(load.data.items[i], "inputSchema")
          /\ load.result.v[i].input_schema = JNull
          /\ load.result.v[i].schema_meta = SchemaMeta(<<>>, <<>>, <<>>)

\* An array with a resource object that lacks a member is rejected.
C21_ResourcesRejectedReached ==
    /\ LoadedArray("resources")
    /\ \E i \in DOMAIN load.data.items : \E k \in ResourceKeys :
          Lacks(load.data.items[i], k)
    /\ ~load.result.is_ok

\* A tool object that lacks name and description is loaded with empty strings.
C21_EmptyNameReached ==
    /\ LoadedArray("tools")
    /\ load.result.is_ok
    /\ \E i \in DOMAIN load.data.items :
          /\ Lacks(load.data.items[i], "name")
          /\ Lacks(load.data.items[i], "description")
          /\ load.result.v[i].name = ""
          /\ load.result.v[i].description = ""

\* ------------------------------------------------------------------------
\* Transports (transport_http.rs, lambda.rs)
\* ------------------------------------------------------------------------

\* The most sessions the HTTP transport creates.
MaxSessions == 2

\* Bodies posted to /mcp: text that is not JSON, or a JSON object with the
\* members of a request, where the id may be absent (None) or null and the
\* method may be absent.
NotJsonBody == [valid |-> FALSE]
JsonBody(jsonrpc, id, method, params) ==
    [valid |-> TRUE, jsonrpc |-> jsonrpc, id |-> id, method |-> method, params |-> params]

\* serde_json::from_str::<JsonRpcRequest>: method is required; an id that is
\* absent or null is None.
from_str_JsonRpcRequest(body) ==
    IF ~body.valid
    THEN Err(<<"expected value">>)
    ELSE IF ~body.method.some
    THEN Err(<<"missing field method">>)
    ELSE Ok(JsonRpcRequest(body.jsonrpc,
                           IF body.id.some /\ body.id.v # JNull THEN body.id ELSE None,
                           body.method.v, body.params))

\* rpc_req.method.starts_with("notifications/"), on the methods of the model.
starts_with_notifications(method) ==
    method \in {"notifications/initialized", "notifications/cancelled",
                "notifications/progress"}

\* new_error_response(id, code, message), as the McpResponse of that shape.
new_error_response(id, code, message) == error(id, code, message)

\* The response a transport emits.
HttpResponse(status, body, session) ==
    [status |-> status, body |-> body, session |-> session]

\* The record of an exchange: the transport, what was posted, the requests
\* given to the dispatcher, what it returned last, and the emitted response.
Exchange(via, body, parsedreq, dispatched, returned, response) ==
    [transport |-> via, body |-> body, request |-> parsedreq,
     dispatched |-> dispatched, returned |-> returned, response |-> response]

\* What both transports emit for the response the dispatcher returned, given
\* whether it is taken as the notification sentinel.
emit(r, sentinel, session) ==
    IF sentinel
    THEN HttpResponse(202, None, None)
    ELSE HttpResponse(200, Some(Serialize(r)), session)

\* handle_mcp (Axum): the Json extractor rejects a body that does not parse
\* before the handler runs; otherwise a session id is created for
\* initialize or taken from the mcp-session-id header, the dispatcher is
\* called, and its response is emitted.
HandleMcp(body, header) ==
    /\ pc = "idle"
    /\ exchange = NoExchange
    /\ LET parsedreq == from_str_JsonRpcRequest(body)
       IN  IF ~parsedreq.is_ok
           THEN /\ exchange' = Exchange("http", body, None, <<>>, NoResponse,
                                        HttpResponse(400, Some(parsedreq.e), None))
                /\ UNCHANGED sessions
           ELSE LET r == parsedreq.v
                    id == Cardinality(sessions) + 1
                    session_id == IF r.method = "initialize" THEN Some(id) ELSE header
                IN  /\ r.method = "initialize" => Cardinality(sessions) < MaxSessions
                    /\ sessions' = IF r.method = "initialize"
                                   THEN sessions \cup {id} ELSE sessions
                    /\ \E o \in handle(r, JNull) :
                          exchange' = Exchange("http", body, Some(r), <<r>>, o.resp,
                                               emit(o.resp, is_notification(o.resp),
                                                    session_id))
    /\ UNCHANGED <<server, registrations, dispatch, construction, registry_log, val, session_log, load_log, app>>

\* handle_jsonrpc (Lambda): a body that does not parse is answered with a
\* parse error; a method that starts with notifications/ is acknowledged
\* at once; otherwise the dispatcher is called and its response is emitted.
HandleJsonRpc(body) ==
    /\ pc = "idle"
    /\ exchange = NoExchange
    /\ LET parsedreq == from_str_JsonRpcRequest(body)
       IN  IF ~parsedreq.is_ok
           THEN exchange' =
                    Exchange("lambda", body, None, <<>>, NoResponse,
                             HttpResponse(400,
                                 Some(Serialize(new_error_response(
                                          None, ERR_CODE_PARSE,
                                          <<"invalid JSON: ">> \o parsedreq.e))),
                                 None))
           ELSE LET r == parsedreq.v
                IN  IF starts_with_notifications(r.method)
                    THEN exchange' = Exchange("lambda", body, Some(r), <<>>, NoResponse,
                                              HttpResponse(202, None, None))
                    ELSE \E o \in handle(r, JNull) :
                            exchange' =
                                Exchange("lambda", body, Some(r), <<r>>, o.resp,
                                         emit(o.resp,
                                              JsonRpcResponse_is_notification(
                                                  into_json_rpc(o.resp)),
                                              None))
    /\ UNCHANGED <<server, registrations, dispatch, construction, registry_log, val, session_log, load_log, sessions, app>>

\* The emitted response has been sent; the transport takes the next request.
Sent ==
    /\ exchange # NoExchange
    /\ exchange' = NoExchange
    /\ UNCHANGED <<server, registrations, dispatch, construction, registry_log, val, session_log, load_log, sessions, app>>

\* The bodies posted: every method without params, a tool call, a request
\* with a null id, one without method, and text that is not JSON.
PostedBodies ==
    {JsonBody("2.0", i, Some(m), None) : i \in {None, Some(JNumber(1))}, m \in Methods}
    \cup {JsonBody("2.0", Some(JNumber(1)), Some("tools/call"),
                   Some(ParamsObject(Some("echo"), Some(JObject({"msg"}, {})), None))),
          JsonBody("2.0", Some(JNull), Some("ping"), None),
          JsonBody("1.0", Some(JNumber(1)), Some("ping"), None),
          JsonBody("2.0", Some(JNumber(1)), None, None),
          NotJsonBody}

\* The mcp-session-id header: absent, a session the transport created, or
\* one it does not know.
SessionHeaders == {None, Some(1), Some(MaxSessions + 1)}

NextTransport ==
    \/ \E body \in PostedBodies, header \in SessionHeaders : HandleMcp(body, header)
    \/ \E body \in PostedBodies : HandleJsonRpc(body)
    \/ Sent

SpecTransport == Init /\ [][NextTransport]_vars

\* A transport has served a body that parsed as a request.
ServedParsed == exchange # NoExchange /\ exchange.request.some

\* C22: every transport calls the dispatcher exactly once for each
\* successfully parsed request, whatever its method, and the status and the
\* body it emits are derived from the response the dispatcher returned:
\* 202 without body for the notification sentinel, else 200 with the
\* serialised response.
C22_DispatchedExactlyOnce ==
    ServedParsed =>
        /\ exchange.dispatched = <<exchange.request.v>>
        /\ exchange.returned \in {o.resp : o \in handle(exchange.request.v, JNull)}
        /\ exchange.response.status =
              (IF is_notification(exchange.returned) THEN 202 ELSE 200)
        /\ exchange.response.body =
              (IF is_notification(exchange.returned)
               THEN None ELSE Some(Serialize(exchange.returned)))

\* The Lambda handler acknowledged a notifications/ method that the
\* dispatcher answers with an error, without calling the dispatcher.
C22_LambdaSkipsDispatcher ==
    /\ ServedParsed
    /\ exchange.transport = "lambda"
    /\ exchange.request.v.method = "notifications/progress"
    /\ exchange.request.v.id = Some(JNumber(1))
    /\ exchange.dispatched = <<>>
    /\ exchange.response = HttpResponse(202, None, None)
    /\ \A o \in handle(exchange.request.v, JNull) : IsError(o.resp, ERR_CODE_NO_METHOD)

\* The Axum handler dispatched a notifications/ method once.
C22_HttpDispatchedReached ==
    /\ ServedParsed
    /\ exchange.transport = "http"
    /\ exchange.request.v.method = "notifications/progress"
    /\ exchange.dispatched = <<exchange.request.v>>
    /\ exchange.response.status = 200

\* ------------------------------------------------------------------------
\* Application tools and their collaborators (crates/app, crates/marketplace)
\* ------------------------------------------------------------------------

\* The most tool calls started in one behaviour.
MaxCalls == 2

\* format!("{}:{}", prefix, id): a partition key such as channel:{user_id}.
Pk(prefix, id) == [prefix |-> prefix, id |-> id]

\* KeyPair; MockDynamo::make_key joins the same two parts.
KeyPair(pk, sk) == [pk |-> pk, sk |-> sk]

\* An index attribute is put on the item only when it is not empty.
NonEmpty(s) == IF s = "" THEN None ELSE Some(s)

\* The item put_item builds: PK, SK, the index attributes, the attributes.
Item(pk, sk, gsi1pk, gsi1sk, gsi2pk, gsi2sk, attrs) ==
    [PK |-> pk, SK |-> sk,
     GSI1PK |-> NonEmpty(gsi1pk), GSI1SK |-> NonEmpty(gsi1sk),
     GSI2PK |-> NonEmpty(gsi2pk), GSI2SK |-> NonEmpty(gsi2sk),
     attrs |-> attrs]

\* The key of a stored item.
KeyOf(item) == KeyPair(item.PK, item.SK)

\* DynamoApi::put_item: the item replaces the one stored under its key.
put_item(store, pk, sk, gsi1pk, gsi1sk, gsi2pk, gsi2sk, attrs) ==
    {i \in store : KeyOf(i) # KeyPair(pk, sk)}
        \cup {Item(pk, sk, gsi1pk, gsi1sk, gsi2pk, gsi2sk, attrs)}

\* DynamoApi::query: the items of a partition.
query(store, pk) == {i \in store : i.PK = pk}

\* DynamoApi::query_with_sk: the item with that key, if stored.
query_with_sk(store, pk, sk) == {i \in store : i.PK = pk /\ i.SK = sk}

\* DynamoApi::query_gsi_with_sk: the items whose index attributes are both
\* present and equal to the given values.
query_gsi_with_sk(store, index_name, gsi_pk, gsi_sk) ==
    IF index_name = "GSI2"
    THEN {i \in store : i.GSI2PK = Some(gsi_pk) /\ i.GSI2SK = Some(gsi_sk)}
    ELSE {i \in store : i.GSI1PK = Some(gsi_pk) /\ i.GSI1SK = Some(gsi_sk)}

\* DynamoApi::delete_item
delete_item(store, pk, sk) == {i \in store : KeyOf(i) # KeyPair(pk, sk)}

\* DynamoApi::batch_delete_items
batch_delete_items(store, pairs) == {i \in store : KeyOf(i) \notin pairs}

\* The key pairs collected from query results (PK and SK of each item).
PairsOf(items) == {KeyOf(i) : i \in items}

\* Tokens: a JWT with its userId claim, the secret it is signed with and
\* whether its exp has passed; text that is not a JWT; the empty string.
Jwt(user_id, secret, expired) ==
    [kind |-> "jwt", user_id |-> user_id, secret |-> secret, expired |-> expired]
NotAJwt == [kind |-> "garbage"]
EmptyToken == [kind |-> "empty"]

\* deps.jwt_secret
JWT_SECRET == "test-secret-key-for-hmac256"

\* auth::create_token: a token for the user, signed with the secret, not
\* expired for the next expiry_secs seconds.
create_token(secret, user_id) == Ok(Jwt(user_id, secret, FALSE))

\* auth::parse_token
parse_token(secret, token_str) ==
    IF token_str.kind # "jwt"
    THEN Err("invalid or expired token")
    ELSE IF token_str.secret # secret \/ token_str.expired
    THEN Err("invalid or expired token")
    ELSE IF token_str.user_id = ""
    THEN Err("missing userId claim")
    ELSE Ok(token_str.user_id)

\* args.get(key).and_then(|v| v.as_str()).unwrap_or("")
Arg(args, key) == IF key \in DOMAIN args THEN args[key] ELSE ""

\* The token argument: the empty string when it is missing.
ArgToken(args) == IF "token" \in DOMAIN args THEN args.token ELSE EmptyToken

\* An authenticate that accepts a token signed with any secret.
authenticate_any_signature(args) ==
    IF ArgToken(args).kind = "jwt" /\ ArgToken(args).user_id # ""
    THEN Ok(ArgToken(args).user_id)
    ELSE Err("invalid or expired token")

\* channel::authenticate
authenticate(args) ==
    IF ArgToken(args) = EmptyToken
    THEN Err("invalid or expired token")
    ELSE parse_token(JWT_SECRET, ArgToken(args))

\* str::to_uppercase on the categories and names of the model.
to_uppercase(s) ==
    CASE s = "food" -> "FOOD"
      [] s = "vehicles" -> "VEHICLES"
      [] s = "My Car" -> "MY CAR"
      [] OTHER -> s

\* replace(' ', "") on the names of the model.
strip_spaces(s) == IF s = "MY CAR" THEN "MYCAR" ELSE s

\* webpush::hash_endpoint on the subscriptions of the model.
hash_endpoint(subscription) ==
    IF subscription = "endpoint-a" THEN "5f1d0c2a9b3e4f67" ELSE "00aa11bb22cc33dd"

\* The text a handler returns: a message, the JSON of a list of items, a
\* token, or a JSON object.
Message(s) == [kind |-> "message", s |-> s]
ItemsJson(items) == [kind |-> "items", items |-> items]
TokenText(token) == [kind |-> "token", token |-> token]
ObjectJson(members) == [kind |-> "json", members |-> members]

\* A call that has just been received: nothing done yet.
Received(tool, args, store) ==
    [pc |-> "received", tool |-> tool, args |-> args, before |-> store,
     user_id |-> "", trace |-> <<>>, failed |-> FALSE, result |-> None,
     items |-> {}, pairs |-> {}, todo |-> {}, gen |-> "", count |-> 0]

\* return Ok(result)
Done(c, result) == [c EXCEPT !.pc = "done", !.result = Some(result)]

\* The call made one more call on a collaborator, which succeeded or failed.
Did(c, op, okay) ==
    [c EXCEPT !.trace = Append(@, op), !.failed = @ \/ ~okay]

\* One successor of a step: the call, the store, and what happened to an
\* OTP in the step (stored by otp-request, or answered with a token).
NoKey == KeyPair(Pk("", ""), "")
Moved(c, store) == [call |-> c, db |-> store, otp |-> "none", key |-> NoKey]
Stored(c, store, key) == [call |-> c, db |-> store, otp |-> "stored", key |-> key]
Issued(c, store, key) == [call |-> c, db |-> store, otp |-> "token", key |-> key]

\* The call waits for the collaborator call named by pc.
Await(c, at) == [c EXCEPT !.pc = at]

\* return Ok(error_result(msg)) and return Ok(text_result(text))
Fail(c, msg) == Done(c, error_result(Message(msg)))
Succeed(c, text) == Done(c, text_result(text))

\* handle_otp_request. The code is drawn when the call is received.
handle_otp_request(c, store, okay, rnd) ==
    LET phone == Arg(c.args, "phone")
        email == Arg(c.args, "email")
        dest == IF phone # "" THEN phone ELSE email
        code == c.gen
        d == Did(c, c.pc, okay)
    IN  CASE c.pc = "received" ->
               IF phone = "" /\ email = ""
               THEN {Moved(Fail(c, "phone or email required"), store)}
               ELSE {Moved(Await([c EXCEPT !.gen = rnd], "put_item"), store)}
          [] c.pc = "put_item" ->
               IF ~okay
               THEN {Moved(Fail(d, "failed to store OTP"), store)}
               ELSE {Stored(Await(d, IF phone # "" THEN "send_sms" ELSE "send_email"),
                            put_item(store, Pk("otp", dest), code, "", "", "", "",
                                     [TTL |-> "now+300"]),
                            KeyPair(Pk("otp", dest), code))}
          [] c.pc = "send_sms" ->
               IF ~okay
               THEN {Moved(Fail(d, "failed to send SMS"), store)}
               ELSE {Moved(Succeed(d, Message("OTP sent")), store)}
          [] c.pc = "send_email" ->
               IF ~okay
               THEN {Moved(Fail(d, "failed to send email"), store)}
               ELSE {Moved(Succeed(d, Message("OTP sent")), store)}

\* handle_otp_verify. The result of delete_item is dropped (let _ =), and
\* create_token does not fail on a secret and a destination that are text.
handle_otp_verify(c, store, okay, rnd) ==
    LET phone == Arg(c.args, "phone")
        email == Arg(c.args, "email")
        code == Arg(c.args, "code")
        dest == IF phone # "" THEN phone ELSE email
        d == Did(c, c.pc, okay)
    IN  CASE c.pc = "received" ->
               IF code = ""
               THEN {Moved(Fail(c, "code required"), store)}
               ELSE IF dest = ""
               THEN {Moved(Fail(c, "phone or email required"), store)}
               ELSE {Moved(Await(c, "query_with_sk"), store)}
          [] c.pc = "query_with_sk" ->
               IF ~okay
               THEN {Moved(Fail(d, "verification failed"), store)}
               ELSE IF query_with_sk(store, Pk("otp", dest), code) = {}
               THEN {Moved(Fail(d, "invalid or expired code"), store)}
               ELSE {Moved(Await(d, "delete_item"), store)}
          [] c.pc = "delete_item" ->
               {Issued(Succeed(d, TokenText(create_token(JWT_SECRET, dest).v)),
                       IF okay THEN delete_item(store, Pk("otp", dest), code) ELSE store,
                       KeyPair(Pk("otp", dest), code))}

\* The optional attributes of a channel: description and address when they
\* are not empty, geo_lat and geo_lon when they are given.
OptionalAttrs(args) ==
    [k \in {k \in {"description", "address"} : Arg(args, k) # ""}
           \cup ({"geo_lat", "geo_lon"} \cap DOMAIN args) |-> args[k]]

\* handle_channel_put. The id nanoid(7) would give is drawn when the call is
\* received and used only when neither of the other two rules applies.
handle_channel_put(c, store, okay, rnd) ==
    LET auth == authenticate(c.args)
        name == Arg(c.args, "name")
        category == Arg(c.args, "category")
        poster == Arg(c.args, "poster")
        channel_arg == Arg(c.args, "channel")
        channel_id == IF channel_arg # "" THEN channel_arg
                      ELSE IF to_uppercase(category) = "VEHICLES"
                      THEN strip_spaces(to_uppercase(name))
                      ELSE rnd
        attrs == [name |-> name, category |-> category, poster |-> poster,
                  owner |-> c.user_id] @@ OptionalAttrs(c.args)
        d == Did(c, c.pc, okay)
    IN  CASE c.pc = "received" ->
               IF ~auth.is_ok
               THEN {Moved(Fail(c, auth.e), store)}
               ELSE {Moved(Await([c EXCEPT !.user_id = auth.v, !.gen = channel_id],
                                 "put_item"), store)}
          [] c.pc = "put_item" ->
               IF ~okay
               THEN {Moved(Fail(d, "failed to create channel"), store)}
               ELSE {Moved(Succeed(d, ObjectJson([channelId |-> c.gen])),
                           put_item(store, Pk("channel", c.user_id), c.gen,
                                    "channel", c.gen,
                                    "channel", to_uppercase(category), attrs))}

\* handle_channel_delete. Errors of the cascade are logged, not returned.
handle_channel_delete(c, store, okay, rnd) ==
    LET auth == authenticate(c.args)
        channel_id == Arg(c.args, "channel")
        subs == query_gsi_with_sk(store, "GSI1", "subscription", channel_id)
        d == Did(c, c.pc, okay)
    IN  CASE c.pc = "received" ->
               IF ~auth.is_ok
               THEN {Moved(Fail(c, auth.e), store)}
               ELSE IF channel_id = ""
               THEN {Moved(Fail(c, "channel required"), store)}
               ELSE {Moved(Await([c EXCEPT !.user_id = auth.v], "delete_item"), store)}
          [] c.pc = "delete_item" ->
               IF ~okay
               THEN {Moved(Fail(d, "failed to delete channel"), store)}
               ELSE {Moved(Await(d, "query_gsi_with_sk"),
                           delete_item(store, Pk("channel", c.user_id), channel_id))}
          [] c.pc = "query_gsi_with_sk" ->
               IF okay /\ subs # {}
               THEN {Moved(Await([d EXCEPT !.pairs = PairsOf(subs)],
                                 "batch_delete_items"), store)}
               ELSE {Moved(Succeed(d, Message("channel deleted")), store)}
          [] c.pc = "batch_delete_items" ->
               {Moved(Succeed(d, Message("channel deleted")),
                      IF okay THEN batch_delete_items(store, c.pairs) ELSE store)}

\* handle_channels_list
handle_channels_list(c, store, okay, rnd) ==
    LET auth == authenticate(c.args)
        d == Did(c, c.pc, okay)
    IN  CASE c.pc = "received" ->
               IF ~auth.is_ok
               THEN {Moved(Fail(c, auth.e), store)}
               ELSE {Moved(Await([c EXCEPT !.user_id = auth.v], "query"), store)}
          [] c.pc = "query" ->
               IF ~okay
               THEN {Moved(Fail(d, "failed to list channels"), store)}
               ELSE {Moved(Succeed(d, ItemsJson(query(store, Pk("channel", c.user_id)))),
                           store)}

\* handle_channels_for_category
handle_channels_for_category(c, store, okay, rnd) ==
    LET auth == authenticate(c.args)
        category == Arg(c.args, "category")
        d == Did(c, c.pc, okay)
    IN  CASE c.pc = "received" ->
               IF ~auth.is_ok
               THEN {Moved(Fail(c, auth.e), store)}
               ELSE IF category = ""
               THEN {Moved(Fail(c, "category required"), store)}
               ELSE {Moved(Await(c, "query_gsi_with_sk"), store)}
          [] c.pc = "query_gsi_with_sk" ->
               IF ~okay
               THEN {Moved(Fail(d, "failed to query channels"), store)}
               ELSE {Moved(Succeed(d, ItemsJson(query_gsi_with_sk(
                               store, "GSI2", "channel", to_uppercase(category)))),
                           store)}

\* handle_channel_subscribe
handle_channel_subscribe(c, store, okay, rnd) ==
    LET auth == authenticate(c.args)
        channel_id == Arg(c.args, "channel")
        d == Did(c, c.pc, okay)
    IN  CASE c.pc = "received" ->
               IF ~auth.is_ok
               THEN {Moved(Fail(c, auth.e), store)}
               ELSE IF channel_id = ""
               THEN {Moved(Fail(c, "channel required"), store)}
               ELSE {Moved(Await([c EXCEPT !.user_id = auth.v], "query_gsi_with_sk"),
                           store)}
          [] c.pc = "query_gsi_with_sk" ->
               IF ~okay
               THEN {Moved(Fail(d, "failed to verify channel"), store)}
               ELSE IF query_gsi_with_sk(store, "GSI1", "channel", channel_id) = {}
               THEN {Moved(Fail(d, "channel not found"), store)}
               ELSE {Moved(Await(d, "put_item"), store)}
          [] c.pc = "put_item" ->
               IF ~okay
               THEN {Moved(Fail(d, "failed to subscribe"), store)}
               ELSE {Moved(Succeed(d, Message("subscribed")),
                           put_item(store, Pk("subscription", c.user_id), channel_id,
                                    "subscription", channel_id, "", "",
                                    [subscribedAt |-> channel_id]))}

\* handle_channel_unsubscribe
handle_channel_unsubscribe(c, store, okay, rnd) ==
    LET auth == authenticate(c.args)
        channel_id == Arg(c.args, "channel")
        d == Did(c, c.pc, okay)
    IN  CASE c.pc = "received" ->
               IF ~auth.is_ok
               THEN {Moved(Fail(c, auth.e), store)}
               ELSE IF channel_id = ""
               THEN {Moved(Fail(c, "channel required"), store)}
               ELSE {Moved(Await([c EXCEPT !.user_id = auth.v], "delete_item"), store)}
          [] c.pc = "delete_item" ->
               IF ~okay
               THEN {Moved(Fail(d, "failed to unsubscribe"), store)}
               ELSE {Moved(Succeed(d, Message("unsubscribed")),
                           delete_item(store, Pk("subscription", c.user_id), channel_id))}

\* handle_subscriptions_list
handle_subscriptions_list(c, store, okay, rnd) ==
    LET auth == authenticate(c.args)
        d == Did(c, c.pc, okay)
    IN  CASE c.pc = "received" ->
               IF ~auth.is_ok
               THEN {Moved(Fail(c, auth.e), store)}
               ELSE {Moved(Await([c EXCEPT !.user_id = auth.v], "query"), store)}
          [] c.pc = "query" ->
               IF ~okay
               THEN {Moved(Fail(d, "failed to list subscriptions"), store)}
               ELSE {Moved(Succeed(d, ItemsJson(query(store,
                                                     Pk("subscription", c.user_id)))),
                           store)}

\* The fan-out loop of channel-notify: the call ends when no subscriber is
\* left, else it asks for the web-push subscriptions of one of them. The
\* subscriber id is the part of the PK after "subscription:".
NextSubscriber(c, store) ==
    IF c.todo = {}
    THEN {Moved(Succeed(c, ObjectJson([stored |-> TRUE, pushSent |-> c.count,
                                       subscribers |-> Cardinality(c.items)])),
                store)}
    ELSE {Moved(Await([c EXCEPT !.todo = @ \ {sub}, !.gen = sub.PK.id], "query"), store)
          : sub \in c.todo}

\* One send_web_push per web-push subscription: the stub returns Ok(()).
SendWebPush(c, push_subs) ==
    [c EXCEPT !.trace = @ \o [i \in 1..Cardinality(push_subs) |-> "send_web_push"],
              !.count = @ + Cardinality(push_subs)]

\* handle_channel_notify. The timestamp is drawn when the call is received.
handle_channel_notify(c, store, okay, rnd) ==
    LET auth == authenticate(c.args)
        channel_id == Arg(c.args, "channel")
        message == Arg(c.args, "message")
        subs == IF okay
                THEN query_gsi_with_sk(store, "GSI1", "subscription", channel_id)
                ELSE {}
        d == Did(c, c.pc, okay)
    IN  CASE c.pc = "received" ->
               IF ~auth.is_ok
               THEN {Moved(Fail(c, auth.e), store)}
               ELSE IF channel_id = "" \/ message = ""
               THEN {Moved(Fail(c, "channel and message required"), store)}
               ELSE {Moved(Await([c EXCEPT !.user_id = auth.v, !.gen = rnd], "put_item"),
                           store)}
          [] c.pc = "put_item" ->
               IF ~okay
               THEN {Moved(Fail(d, "failed to store message"), store)}
               ELSE {Moved(Await(d, "query_gsi_with_sk"),
                           put_item(store, Pk("message", channel_id), c.gen,
                                    "", "", "", "",
                                    [sender |-> c.user_id, message |-> message]))}
          [] c.pc = "query_gsi_with_sk" ->
               NextSubscriber([d EXCEPT !.items = subs, !.todo = subs], store)
          [] c.pc = "query" ->
               IF ~okay
               THEN NextSubscriber(d, store)
               ELSE NextSubscriber(SendWebPush(d, query(store, Pk("web-push", c.gen))),
                                   store)

\* handle_channel_messages
handle_channel_messages(c, store, okay, rnd) ==
    LET auth == authenticate(c.args)
        channel_id == Arg(c.args, "channel")
        d == Did(c, c.pc, okay)
    IN  CASE c.pc = "received" ->
               IF ~auth.is_ok
               THEN {Moved(Fail(c, auth.e), store)}
               ELSE IF channel_id = ""
               THEN {Moved(Fail(c, "channel required"), store)}
               ELSE {Moved(Await(c, "query"), store)}
          [] c.pc = "query" ->
               IF ~okay
               THEN {Moved(Fail(d, "failed to list messages"), store)}
               ELSE {Moved(Succeed(d, ItemsJson(query(store, Pk("message", channel_id)))),
                           store)}

\* handle_web_push_enable
handle_web_push_enable(c, store, okay, rnd) ==
    LET auth == authenticate(c.args)
        subscription == Arg(c.args, "subscription")
        d == Did(c, c.pc, okay)
    IN  CASE c.pc = "received" ->
               IF ~auth.is_ok
               THEN {Moved(Fail(c, auth.e), store)}
               ELSE IF subscription = ""
               THEN {Moved(Fail(c, "subscription required"), store)}
               ELSE {Moved(Await([c EXCEPT !.user_id = auth.v], "put_item"), store)}
          [] c.pc = "put_item" ->
               IF ~okay
               THEN {Moved(Fail(d, "failed to enable web push"), store)}
               ELSE {Moved(Succeed(d, Message("web push enabled")),
                           put_item(store, Pk("web-push", c.user_id),
                                    hash_endpoint(subscription), "", "", "", "",
                                    [subscription |-> subscription]))}

\* handle_web_push_disable
handle_web_push_disable(c, store, okay, rnd) ==
    LET auth == authenticate(c.args)
        subscription == Arg(c.args, "subscription")
        d == Did(c, c.pc, okay)
    IN  CASE c.pc = "received" ->
               IF ~auth.is_ok
               THEN {Moved(Fail(c, auth.e), store)}
               ELSE IF subscription = ""
               THEN {Moved(Fail(c, "subscription required"), store)}
               ELSE {Moved(Await([c EXCEPT !.user_id = auth.v], "delete_item"), store)}
          [] c.pc = "delete_item" ->
               IF ~okay
               THEN {Moved(Fail(d, "failed to disable web push"), store)}
               ELSE {Moved(Succeed(d, Message("web push disabled")),
                           delete_item(store, Pk("web-push", c.user_id),
                                       hash_endpoint(subscription)))}

\* The loop of account-delete over the owned channels: the key of the next
\* channel is queued and its subscriptions are asked for; after the last
\* channel the user's own subscriptions are asked for.
NextChannel(c, store) ==
    IF c.todo = {}
    THEN {Moved(Await(c, "query_subscriptions"), store)}
    ELSE {Moved(Await([c EXCEPT !.todo = @ \ {ch}, !.gen = ch.SK,
                                !.pairs = @ \cup {KeyPair(Pk("channel", c.user_id), ch.SK)}],
                      "query_gsi_with_sk"), store)
          : ch \in c.todo}

\* The key pairs of a query result, or none when the query failed.
Queued(c, okay, items) ==
    [c EXCEPT !.pairs = @ \cup (IF okay THEN PairsOf(items) ELSE {})]

\* handle_account_delete. A failed query is logged and counts as empty.
handle_account_delete(c, store, okay, rnd) ==
    LET auth == authenticate(c.args)
        d == Did(c, c.pc, okay)
    IN  CASE c.pc = "received" ->
               IF ~auth.is_ok
               THEN {Moved(Fail(c, auth.e), store)}
               ELSE {Moved(Await([c EXCEPT !.user_id = auth.v], "query"), store)}
          [] c.pc = "query" ->
               NextChannel([d EXCEPT !.todo = IF okay
                                              THEN query(store, Pk("channel", c.user_id))
                                              ELSE {}], store)
          [] c.pc = "query_gsi_with_sk" ->
               {Moved(Await(Queued(d, okay, query_gsi_with_sk(store, "GSI1",
                                                               "subscription", c.gen)),
                            "query_messages"), store)}
          [] c.pc = "query_messages" ->
               NextChannel(Queued(d, okay, query(store, Pk("message", c.gen))), store)
          [] c.pc = "query_subscriptions" ->
               {Moved(Await(Queued(d, okay, query(store, Pk("subscription", c.user_id))),
                            "query_web_push"), store)}
          [] c.pc = "query_web_push" ->
               LET q == Queued(d, okay, query(store, Pk("web-push", c.user_id)))
               IN  IF q.pairs # {}
                   THEN {Moved(Await(q, "batch_delete_items"), store)}
                   ELSE {Moved(Succeed(q, Message("account deleted")), store)}
          [] c.pc = "batch_delete_items" ->
               IF ~okay
               THEN {Moved(Fail(d, "partial deletion, please retry"), store)}
               ELSE {Moved(Succeed(d, Message("account deleted")),
                           batch_delete_items(store, c.pairs))}

\* register_all: the handler registered under each tool name, run from the
\* point the call has reached to its next await or to its return.
call_tool(c, store, okay, rnd) ==
    CASE c.tool = "otp-request" -> handle_otp_request(c, store, okay, rnd)
      [] c.tool = "otp-verify" -> handle_otp_verify(c, store, okay, rnd)
      [] c.tool = "channel-put" -> handle_channel_put(c, store, okay, rnd)
      [] c.tool = "channel-delete" -> handle_channel_delete(c, store, okay, rnd)
      [] c.tool = "channels-list" -> handle_channels_list(c, store, okay, rnd)
      [] c.tool = "channels-for-category" ->
             handle_channels_for_category(c, store, okay, rnd)
      [] c.tool = "channel-subscribe" -> handle_channel_subscribe(c, store, okay, rnd)
      [] c.tool = "channel-unsubscribe" -> handle_channel_unsubscribe(c, store, okay, rnd)
      [] c.tool = "subscriptions-list" -> handle_subscriptions_list(c, store, okay, rnd)
      [] c.tool = "channel-notify" -> handle_channel_notify(c, store, okay, rnd)
      [] c.tool = "channel-messages" -> handle_channel_messages(c, store, okay, rnd)
      [] c.tool = "web-push-enable" -> handle_web_push_enable(c, store, okay, rnd)
      [] c.tool = "web-push-disable" -> handle_web_push_disable(c, store, okay, rnd)
      [] c.tool = "account-delete" -> handle_account_delete(c, store, okay, rnd)

\* ------------------------------------------------------------------------
\* Calls on the application tools
\* ------------------------------------------------------------------------

\* The users of the tests, the OTP destinations and the generated values:
\* six-digit codes, nanoid(7) ids, nanosecond timestamps.
Users == {"user1", "user2"}
Phone == "+15551234567"
Email == "user@example.com"
Codes == {"123456", "654321"}
NanoIds == {"Ab3dE9x", "h7Kp2Qz"}
Timestamps == {"1700000000000000001", "1700000000000000002"}

\* test_token(user_id): a token create_token makes with the server's secret.
test_token(user_id) == create_token(JWT_SECRET, user_id).v

\* Tokens authenticate must refuse: the empty string, text that is no JWT,
\* a JWT signed with another secret, an expired JWT, a JWT without userId.
BadTokens ==
    {EmptyToken, NotAJwt, Jwt("user1", "another-secret", FALSE),
     Jwt("user1", JWT_SECRET, TRUE), Jwt("", JWT_SECRET, FALSE)}

\* Arguments without members, and arguments with a token member added.
NoArgs == [k \in {} |-> ""]
WithToken(args, token) == args @@ [token |-> token]

\* The tools whose handler begins with authenticate.
ProtectedTools ==
    {"channel-put", "channel-delete", "channels-list", "channels-for-category",
     "channel-subscribe", "channel-unsubscribe", "subscriptions-list",
     "channel-notify", "channel-messages", "web-push-enable", "web-push-disable",
     "account-delete"}

\* The arguments, token aside, with which each protected tool is called.
ArgsOf(tool) ==
    CASE tool = "channel-put" ->
             {[channel |-> "", name |-> "Delete Me", category |-> "food",
               poster |-> "owner"],
              [channel |-> "", name |-> "My Car", category |-> "vehicles",
               poster |-> "owner"],
              [channel |-> "Ab3dE9x", name |-> "Renamed", category |-> "food",
               poster |-> "owner", description |-> "updated"]}
      [] tool \in {"channel-delete", "channel-subscribe", "channel-unsubscribe"} ->
             {[channel |-> "Ab3dE9x"], [channel |-> "MYCAR"], NoArgs}
      [] tool = "channels-for-category" -> {[category |-> "food"], NoArgs}
      [] tool = "channel-notify" ->
             {[channel |-> "Ab3dE9x", message |-> "Hello"], [channel |-> "Ab3dE9x"]}
      [] tool = "channel-messages" -> {[channel |-> "Ab3dE9x"], NoArgs}
      [] tool \in {"web-push-enable", "web-push-disable"} ->
             {[subscription |-> "endpoint-a"], NoArgs}
      [] OTHER -> {NoArgs}

\* The arguments sent with a token that must be refused: the first of the
\* tests' arguments for the tool.
RefusedArgsOf(tool) ==
    CASE tool = "channel-put" ->
             [channel |-> "", name |-> "Delete Me", category |-> "food",
              poster |-> "owner"]
      [] tool \in {"channel-delete", "channel-subscribe", "channel-unsubscribe",
                   "channel-messages"} -> [channel |-> "Ab3dE9x"]
      [] tool = "channels-for-category" -> [category |-> "food"]
      [] tool = "channel-notify" -> [channel |-> "Ab3dE9x", message |-> "Hello"]
      [] tool \in {"web-push-enable", "web-push-disable"} ->
             [subscription |-> "endpoint-a"]
      [] OTHER -> NoArgs

ToolCall(tool, args) == [tool |-> tool, args |-> args]

\* Calls of protected tools by a user with a token of their own.
AuthenticatedCalls ==
    {ToolCall(t[1], WithToken(t[3], test_token(t[2])))
     : t \in {x \in ProtectedTools \X Users \X UNION {ArgsOf(y) : y \in ProtectedTools}
              : x[3] \in ArgsOf(x[1])}}

\* Calls of protected tools without a token member or with a refused token.
RefusedCalls ==
    {ToolCall(tool, RefusedArgsOf(tool)) : tool \in ProtectedTools}
        \cup {ToolCall(t[1], WithToken(RefusedArgsOf(t[1]), t[2]))
              : t \in ProtectedTools \X BadTokens}

\* Calls of the two tools that take no token.
OtpCalls ==
    {ToolCall("otp-request", a) : a \in {[phone |-> Phone], [email |-> Email], NoArgs}}
        \cup {ToolCall("otp-verify", a)
              : a \in {[phone |-> Phone, code |-> "123456"],
                       [phone |-> Phone, code |-> "654321"],
                       [email |-> Email, code |-> "123456"],
                       [phone |-> Phone], [code |-> "123456"]}}

ToolCalls == AuthenticatedCalls \cup RefusedCalls \cup OtpCalls

\* tools.json of the application: the members the input schema of a tool
\* requires. No schema requires the token member, so that a call without a
\* token passes validation and reaches the handler.
tools_json_required(tool) == {}

\* The values a handler may draw when it is called.
Drawn(tool) ==
    CASE tool = "otp-request" -> Codes
      [] tool = "channel-put" -> NanoIds
      [] tool = "channel-notify" -> Timestamps
      [] OTHER -> {""}

\* The store after the calls test_account_delete makes before it deletes the
\* account (user1 creates a channel, user2 subscribes, user1 sends a message
\* and enables web push), after user2 has done the same with a channel of
\* the VEHICLES category to which user1 subscribes, and after an otp-request
\* for the phone number.
Populated ==
    LET s1 == put_item({}, Pk("channel", "user1"), "Ab3dE9x", "channel", "Ab3dE9x",
                       "channel", "FOOD",
                       [name |-> "Delete Me", category |-> "food", poster |-> "owner",
                        owner |-> "user1"])
        s2 == put_item(s1, Pk("subscription", "user2"), "Ab3dE9x",
                       "subscription", "Ab3dE9x", "", "", [subscribedAt |-> "Ab3dE9x"])
        s3 == put_item(s2, Pk("message", "Ab3dE9x"), "1700000000000000001",
                       "", "", "", "", [sender |-> "user1", message |-> "Hello"])
        s4 == put_item(s3, Pk("web-push", "user1"), hash_endpoint("endpoint-a"),
                       "", "", "", "", [subscription |-> "endpoint-a"])
        s5 == put_item(s4, Pk("channel", "user2"), "MYCAR", "channel", "MYCAR",
                       "channel", "VEHICLES",
                       [name |-> "My Car", category |-> "vehicles", poster |-> "owner",
                        owner |-> "user2"])
        s6 == put_item(s5, Pk("subscription", "user1"), "MYCAR",
                       "subscription", "MYCAR", "", "", [subscribedAt |-> "MYCAR"])
        s7 == put_item(s6, Pk("web-push", "user2"), hash_endpoint("endpoint-b"),
                       "", "", "", "", [subscription |-> "endpoint-b"])
    IN  put_item(s7, Pk("otp", Phone), "123456", "", "", "", "", [TTL |-> "now+300"])

\* The tokens returned for an OTP since otp-request last stored it.
TokensFor(key) == IF key \in DOMAIN issued THEN issued[key] ELSE 0

\* issued after a step: an OTP stored anew has yielded no token; an OTP
\* answered with a token has yielded one more.
Counted(m) ==
    CASE m.otp = "stored" ->
             [k \in DOMAIN issued \cup {m.key} |-> IF k = m.key THEN 0 ELSE issued[k]]
      [] m.otp = "token" ->
             [k \in DOMAIN issued \cup {m.key} |->
                 IF k = m.key THEN TokensFor(k) + 1 ELSE issued[k]]
      [] OTHER -> issued

\* The server is built and serves tool calls; nothing is in flight.
InitApp ==
    /\ load = NoLoad
    /\ NoTraffic
    /\ db \in {{}, Populated}
    /\ flight = [p \in Procs |-> NoCall]
    /\ started = 0
    /\ issued = [k \in {} |-> 0]
    /\ val = NoValidation
    /\ builder = ServerBuilder_default
    /\ added = <<>>
    /\ builder_calls = {}
    /\ NothingRegistered
    /\ probe = NoProbe
    /\ announced = FALSE
    /\ tools = EmptyMap
    /\ resources = EmptyMap
    /\ tool_handlers = EmptyMap
    /\ resource_handlers = EmptyMap
    /\ initialize_result = to_raw(JNull)
    /\ tools_list_result = to_raw(JNull)
    /\ resources_list_result = to_raw(JNull)
    /\ registrations = 0
    /\ pc = "serving"
    /\ req = NoRequest
    /\ context = JNull
    /\ resp = NoResponse
    /\ calls = <<>>

\* A caller's tool call passes validation and reaches its handler, which runs to its first await
\* or, when it refuses the call, to its return.
Call(p, tc, rnd) ==
    /\ pc = "serving"
    /\ flight[p] = NoCall
    /\ started < MaxCalls
    /\ tools_json_required(tc.tool) \subseteq DOMAIN tc.args
    /\ \E m \in call_tool(Received(tc.tool, tc.args, db), db, TRUE, rnd) :
          /\ flight' = [flight EXCEPT ![p] = m.call]
          /\ db' = m.db
    /\ started' = started + 1
    /\ UNCHANGED <<server, registrations, dispatch, construction, registry_log, val,
                   session_log, load_log, transport, issued>>

\* The collaborator call a handler waits for returns, with success or with
\* an error, and the handler runs to its next await or to its return.
Resume(p, okay) ==
    /\ pc = "serving"
    /\ flight[p].pc \notin {"free", "done"}
    /\ \E m \in call_tool(flight[p], db, okay, "") :
          /\ flight' = [flight EXCEPT ![p] = m.call]
          /\ db' = m.db
          /\ issued' = Counted(m)
    /\ UNCHANGED <<server, registrations, dispatch, construction, registry_log, val,
                   session_log, load_log, transport, started>>

\* The caller has its result.
Return(p) ==
    /\ pc = "serving"
    /\ flight[p].pc = "done"
    /\ flight' = [flight EXCEPT ![p] = NoCall]
    /\ UNCHANGED <<server, registrations, dispatch, construction, registry_log, val,
                   session_log, load_log, transport, db, started, issued>>

\* No call is in flight.
Quiet == \A p \in Procs : flight[p] = NoCall

\* One call at a time: the next call is made when the last has returned.
NextApp ==
    \/ \E tc \in ToolCalls : \E rnd \in Drawn(tc.tool) : Quiet /\ Call(1, tc, rnd)
    \/ \E okay \in BOOLEAN : Resume(1, okay)
    \/ Return(1)

SpecApp == InitApp /\ [][NextApp]_vars

\* handle_tools_call on the handler's return value: the response to the call.
ToolCallResponse(c) == tool_call_response(Some(JNumber(1)), Ok(c.result.v))

\* The token member is missing or empty, is no JWT, or is signed with a
\* secret that is not the server's.
RefusedToken(args) ==
    \/ "token" \notin DOMAIN args
    \/ args.token.kind # "jwt"
    \/ args.token.secret # JWT_SECRET

C23_WronglySignedReached ==
    \E p \in Procs :
        /\ flight[p].pc = "done"
        /\ flight[p].tool = "channel-notify"
        /\ "token" \in DOMAIN flight[p].args
        /\ flight[p].args.token = Jwt("user1", "another-secret", FALSE)
C23_MissingTokenReached ==
    \E p \in Procs :
        /\ flight[p].pc = "done"
        /\ flight[p].tool = "web-push-enable"
        /\ "token" \notin DOMAIN flight[p].args

\* The tests' store: MockDynamo, whose calls all return Ok.
NextMock ==
    \/ \E tc \in ToolCalls : \E rnd \in Drawn(tc.tool) : Quiet /\ Call(1, tc, rnd)
    \/ Resume(1, TRUE)
    \/ Return(1)

SpecMock == InitApp /\ [][NextMock]_vars

\* The key under which the OTP of an otp-verify call is stored.
OtpKeyOf(args) ==
    KeyPair(Pk("otp", IF Arg(args, "phone") # "" THEN Arg(args, "phone")
                      ELSE Arg(args, "email")),
            Arg(args, "code"))

\* An otp-verify call with a code and a destination has returned.
VerifyReturned(c) ==
    /\ c.pc = "done"
    /\ c.tool = "otp-verify"
    /\ OtpKeyOf(c.args).sk # ""
    /\ OtpKeyOf(c.args).pk.id # ""

ReturnedToken(c) == ~c.result.v.is_error

\* C24: an OTP is single-use. When otp-verify has returned a token for a
\* destination and code, that OTP is no longer stored and it is the only
\* token returned for it since otp-request stored it; an otp-verify made
\* after a token was returned, with no otp-request storing the code again in
\* between, returns the error result 'invalid or expired code'.
C24_OtpSingleUse ==
    \A p \in Procs :
        LET c == flight[p]
        IN  VerifyReturned(c) =>
                IF ReturnedToken(c)
                THEN /\ OtpKeyOf(c.args) \notin PairsOf(db)
                     /\ TokensFor(OtpKeyOf(c.args)) = 1
                ELSE TokensFor(OtpKeyOf(c.args)) >= 1 =>
                         c.result.v = error_result(Message("invalid or expired code"))

\* otp-verify has returned a token although delete_item failed: the OTP is
\* still stored.
C24_TokenWithOtpKept ==
    \E p \in Procs :
        /\ VerifyReturned(flight[p])
        /\ ReturnedToken(flight[p])
        /\ OtpKeyOf(flight[p].args) \in PairsOf(db)

\* A second token has been returned for an OTP that was stored once.
C24_SecondTokenReached ==
    \E p \in Procs :
        /\ VerifyReturned(flight[p])
        /\ ReturnedToken(flight[p])
        /\ TokensFor(OtpKeyOf(flight[p].args)) = 2

\* A used code has been refused.
C24_UsedCodeRefused ==
    \E p \in Procs :
        /\ VerifyReturned(flight[p])
        /\ TokensFor(OtpKeyOf(flight[p].args)) = 1
        /\ flight[p].result.v = error_result(Message("invalid or expired code"))

\* The ids of the channels stored under a user.
OwnedChannels(store, user_id) == {i.SK : i \in query(store, Pk("channel", user_id))}

\* What belongs to a user's account: the user's channels, every subscription
\* to one of them, every message of one of them, the user's subscriptions and
\* the user's web-push subscriptions.
AccountItems(store, user_id) ==
    {i \in store :
        \/ i.PK = Pk("channel", user_id)
        \/ i.PK.prefix = "subscription" /\ i.SK \in OwnedChannels(store, user_id)
        \/ i.PK.prefix = "message" /\ i.PK.id \in OwnedChannels(store, user_id)
        \/ i.PK = Pk("subscription", user_id)
        \/ i.PK = Pk("web-push", user_id)}

\* account-delete has returned 'account deleted'.
AccountDeleted(c) ==
    /\ c.pc = "done"
    /\ c.tool = "account-delete"
    /\ c.result.v = text_result(Message("account deleted"))

\* C25: after account-delete returns 'account deleted' for a user, the store
\* holds none of the items of the user's account (channels, subscriptions to
\* them, their messages, the user's subscriptions and web-push subscriptions)
\* and every other item that was stored when the call arrived, unchanged.
C25_AccountDeleteRemovesAccount ==
    \A p \in Procs :
        LET c == flight[p]
        IN  AccountDeleted(c) =>
                db = c.before \ AccountItems(c.before, c.user_id)

\* 'account deleted' has been returned although the query for the user's
\* channels failed and a channel of the user is still stored.
C25_DeletedWithChannelKept ==
    \E p \in Procs :
        /\ AccountDeleted(flight[p])
        /\ flight[p].trace[1] = "query"
        /\ query(db, Pk("channel", flight[p].user_id)) # {}

\* 'account deleted' has been returned for an account that had a channel
\* with a subscriber and a message, and all of it is gone while the other
\* user's items are stored.
C25_WholeAccountRemoved ==
    \E p \in Procs :
        /\ AccountDeleted(flight[p])
        /\ flight[p].user_id = "user1"
        /\ flight[p].before = Populated
        /\ db = Populated \ AccountItems(Populated, "user1")
        /\ query(db, Pk("channel", "user2")) # {}

\* The subscriptions of all users to a channel id.
SubscriptionsTo(store, channel_id) ==
    {i \in store : i.PK.prefix = "subscription" /\ i.SK = channel_id}

\* channel-delete has returned 'channel deleted'.
ChannelDeleted(c) ==
    /\ c.pc = "done"
    /\ c.tool = "channel-delete"
    /\ c.result.v = text_result(Message("channel deleted"))

\* C26: after channel-delete returns 'channel deleted' to the owner of a
\* channel, the channel is not among the items channels-list returns to the
\* owner and no subscription of any user to the channel is stored.
C26_ChannelDeleteCascades ==
    \A p \in Procs :
        LET c == flight[p]
        IN  (ChannelDeleted(c)
             /\ Arg(c.args, "channel") \in OwnedChannels(c.before, c.user_id)) =>
                /\ Arg(c.args, "channel") \notin OwnedChannels(db, c.user_id)
                /\ SubscriptionsTo(db, Arg(c.args, "channel")) = {}

\* 'channel deleted' has been returned to the owner although the cascade
\* failed and a subscription to the channel is still stored.
C26_DeletedWithSubscriptionKept ==
    \E p \in Procs :
        /\ ChannelDeleted(flight[p])
        /\ Arg(flight[p].args, "channel") \in OwnedChannels(flight[p].before,
                                                             flight[p].user_id)
        /\ SubscriptionsTo(db, Arg(flight[p].args, "channel")) # {}

\* The owner has deleted a channel that had a subscriber, and the
\* subscription is gone with it.
C26_CascadeReached ==
    \E p \in Procs :
        /\ ChannelDeleted(flight[p])
        /\ ~flight[p].failed
        /\ SubscriptionsTo(flight[p].before, Arg(flight[p].args, "channel")) # {}
        /\ Arg(flight[p].args, "channel") \in OwnedChannels(flight[p].before,
                                                             flight[p].user_id)
        /\ SubscriptionsTo(db, Arg(flight[p].args, "channel")) = {}

\* The otp-verify calls among the calls of the model.
VerifyCalls == {tc \in OtpCalls : tc.tool = "otp-verify"}

\* Callers verify codes at the same time; the store is the tests' MockDynamo,
\* whose calls all return Ok and take effect one at a time.
NextVerifyRace ==
    \/ \E p \in Procs : \E tc \in VerifyCalls : Call(p, tc, "")
    \/ \E p \in Procs : Resume(p, TRUE)
    \/ \E p \in Procs : Return(p)

SpecVerifyRace == InitApp /\ [][NextVerifyRace]_vars

\* C27: each stored OTP yields at most one token. No otp-request runs here,
\* so each OTP was stored once: no OTP has been answered with more than one
\* token, and when a call has returned a token for an OTP, every other call
\* that has returned for the same OTP got 'invalid or expired code'.
C27_OneTokenPerOtp ==
    /\ \A k \in DOMAIN issued : issued[k] <= 1
    /\ \A p, q \in Procs :
          (/\ p # q
           /\ VerifyReturned(flight[p])
           /\ VerifyReturned(flight[q])
           /\ OtpKeyOf(flight[p].args) = OtpKeyOf(flight[q].args)
           /\ ReturnedToken(flight[p])) =>
              flight[q].result.v = error_result(Message("invalid or expired code"))

\* Two concurrent otp-verify calls have both returned a token for the one
\* stored OTP, neither having met a store failure.
C27_TwoTokensReached ==
    \E p, q \in Procs :
        /\ p # q
        /\ VerifyReturned(flight[p]) /\ ReturnedToken(flight[p]) /\ ~flight[p].failed
        /\ VerifyReturned(flight[q]) /\ ReturnedToken(flight[q]) /\ ~flight[q].failed
        /\ OtpKeyOf(flight[p].args) = OtpKeyOf(flight[q].args)
        /\ flight[p].before = Populated /\ flight[q].before = Populated
        /\ issued[OtpKeyOf(flight[p].args)] = 2

\* channel-delete has returned to an authenticated user who named a channel
\* that was not stored under that user when the call arrived.
NotOwner(c) ==
    /\ c.pc = "done"
    /\ c.tool = "channel-delete"
    /\ authenticate(c.args).is_ok
    /\ Arg(c.args, "channel") # ""
    /\ Arg(c.args, "channel") \notin OwnedChannels(c.before, c.user_id)

\* C28: channel-delete called by an authenticated user who does not own the
\* named channel changes nothing: the store is as it was when the call
\* arrived, so the channel is stored under its owner and every subscription
\* to it remains.
C28_NonOwnerDeleteChangesNothing ==
    \A p \in Procs : NotOwner(flight[p]) => db = flight[p].before

\* A user who does not own the channel has deleted the subscriptions to it,
\* while the channel is still stored under its owner.
C28_NonOwnerRemovedSubscriptions ==
    \E p \in Procs :
        /\ NotOwner(flight[p])
        /\ ~flight[p].failed
        /\ flight[p].user_id = "user2"
        /\ Arg(flight[p].args, "channel") = "Ab3dE9x"
        /\ "Ab3dE9x" \in OwnedChannels(db, "user1")
        /\ SubscriptionsTo(flight[p].before, "Ab3dE9x") # {}
        /\ SubscriptionsTo(db, "Ab3dE9x") = {}

\* The tools that create and remove channels and subscriptions.
ChannelTools ==
    {"channel-put", "channel-subscribe", "channel-unsubscribe", "channel-delete",
     "account-delete"}

ChannelCalls == {tc \in AuthenticatedCalls : tc.tool \in ChannelTools}

\* Callers create, subscribe to and delete channels at the same time; the
\* store is the tests' MockDynamo, whose calls all return Ok and take effect
\* one at a time.
NextChannelRace ==
    \/ \E p \in Procs : \E tc \in ChannelCalls : \E rnd \in Drawn(tc.tool) : Call(p, tc, rnd)
    \/ \E p \in Procs : Resume(p, TRUE)
    \/ \E p \in Procs : Return(p)

SpecChannelRace == InitApp /\ [][NextChannelRace]_vars

\* The subscriptions that name a channel id under which no channel is stored.
Dangling(store) ==
    {i \in store :
        /\ i.PK.prefix = "subscription"
        /\ ~\E ch \in store : ch.PK.prefix = "channel" /\ ch.SK = i.SK}

\* C29: every stored subscription refers to an existing channel. Whenever all
\* calls of channel-put, channel-subscribe, channel-unsubscribe,
\* channel-delete and account-delete made so far have completed, each
\* subscription item names a channel that is stored.
C29_SubscriptionsNameChannels == Quiet => Dangling(db) = {}

\* All calls have completed without a store failure and a subscription names
\* a channel that is no longer stored.
C29_DanglingReached ==
    /\ Quiet
    /\ started = 2
    /\ \E i \in Dangling(db) : i.PK.id = "user1" /\ i.SK = "Ab3dE9x"

\* A subscription was put while its channel was stored and all calls have
\* completed.
C29_SubscribedReached ==
    /\ Quiet
    /\ Dangling(db) = {}
    /\ \E i \in db : i.PK = Pk("subscription", "user1") /\ i.SK = "Ab3dE9x"

\* ------------------------------------------------------------------------
\* The advertised tools and the catalog
\* ------------------------------------------------------------------------

\* tools/list, and tools/call for the catalog's names with each set of
\* argument keys.
CatalogRequests ==
    {JsonRpcRequest("2.0", Some(JNumber(1)), "tools/list", None)}
        \cup {JsonRpcRequest("2.0", Some(JNumber(1)), "tools/call",
                             Some(ParamsObject(Some(n), Some(JObject(K, {})), None)))
              : n \in {"echo", "find"}, K \in SUBSET ArgKeys}

\* Tool definitions are given to the builder, the server is built, a handler
\* is registered for echo and requests are dispatched.
NextCatalog ==
    \/ \E ts \in ToolVecs : BuilderTools(ts)
    \/ Build
    \/ HandleTool("echo", "EchoHandler")
    \/ \E r \in CatalogRequests : Handle(r, JNull)
    \/ Respond

SpecCatalog == InitBuild /\ [][NextCatalog]_vars

\* The entries of the cached tools/list payload of the built server.
Advertised == from_str(tools_list_result).tools

\* C30: the advertised surface and the catalog agree. On a built server the
\* tool names in the tools/list payload are the keys of the tool catalog,
\* each name is advertised once, and the input schema advertised for a name
\* is the schema of the catalog entry tools/call validates arguments against,
\* whatever definitions the builder was given.
C30_AdvertisedIsCatalog ==
    pc # "building" =>
        /\ {Advertised[i].name : i \in DOMAIN Advertised} = DOMAIN tools
        /\ \A i, j \in DOMAIN Advertised :
              Advertised[i].name = Advertised[j].name => i = j
        /\ \A i \in DOMAIN Advertised :
              Advertised[i].inputSchema = tools[Advertised[i].name].input_schema

\* The builder was given two definitions named echo; tools/list advertises
\* both, the first with a schema that requires msg, and tools/call has run
\* the handler of echo on arguments without msg.
C30_CallPassedAdvertisedSchema ==
    /\ Answered("tools/call")
    /\ Len(Advertised) >= 2
    /\ Advertised[1] = EchoDef
    /\ \E i \in DOMAIN Advertised : Advertised[i] = EchoOpenDef
    /\ req.params.v.name = Some("echo")
    /\ req.params.v.arguments = Some(JObject({}, {}))
    /\ into_json_rpc(resp).result.some

\* The builder was given definitions with distinct names and tools/call has
\* refused arguments that lack a member the advertised schema requires.
C30_DistinctNamesReached ==
    /\ Answered("tools/call")
    /\ Len(Advertised) = 2
    /\ Advertised[1].name # Advertised[2].name
    /\ into_json_rpc(resp).error.some
    /\ into_json_rpc(resp).error.v.code = ERR_CODE_BAD_PARAMS

============================================================================
